---- MODULE Spec2Model ----
(***************************************************************************)
(* Model of the ParadeDB operator's reconciliation loop                    *)
(* (internal/controller/paradedb_controller.go) and of the descriptor      *)
(* helpers it uses (api/v1alpha1/paradedb_types.go).                       *)
(*                                                                         *)
(* The store holds one ParadeDB descriptor (cr) and the objects the loop   *)
(* manages for it (objs).  One reconciliation pass is a chain of steps,    *)
(* one per API call group of Reconcile, linked by pc; paradedb is the      *)
(* pass's in-memory copy of the descriptor, calls the API calls and events *)
(* the pass has issued so far.  External actors (the user, the workload    *)
(* controller, the garbage collector) act between passes.                  *)
(***************************************************************************)
EXTENDS Integers, Sequences, FiniteSets, TLC

\* Largest replica count the user may ask for (the CRD allows 1..10).
MaxReplicas == 2

\* Largest metadata.generation of a descriptor: the store starts a descriptor
\* at generation 1 and adds one for every edit of its spec.
MaxGeneration == 2

\* Requeue intervals, in seconds.
requeueAfterError == 30
requeueAfterSuccess == 60

\* Port of the primary, headless and pooler endpoints.
PostgresPort == 5432

\* Port of the metrics endpoint when spec.monitoring.port is unset.
DefaultMetricsPort == 9187

ConditionTypeReady == "Ready"
ConditionTypeProgressing == "Progressing"
ConditionTypeDegraded == "Degraded"
ConditionTypes == {ConditionTypeReady, ConditionTypeProgressing, ConditionTypeDegraded}

ParadeDBPhasePending == "Pending"
ParadeDBPhaseCreating == "Creating"
ParadeDBPhaseRunning == "Running"
ParadeDBPhaseUpdating == "Updating"
ParadeDBPhaseFailed == "Failed"
ParadeDBPhaseDeleting == "Deleting"

\* The objects the loop creates for a descriptor named <name>.
KCredentials == "name-credentials"
KConfig == "name-config"
KStatefulSet == "name/StatefulSet"
KService == "name/Service"
KHeadless == "name-headless"
KPoolerConfig == "name-pooler-config"
KPoolerDeployment == "name-pooler/Deployment"
KPoolerService == "name-pooler/Service"
KMetrics == "name-metrics"
\* The Secret a descriptor's spec.auth.superuserSecretRef names.
KSuperuserSecret == "superuserSecretRef"
\* The CronJob of the backup step, <name>-backup; the step is a stub, so no
\* pass ever writes it.
KBackupCronJob == "name-backup/CronJob"
\* The descriptor itself, as the target of a call.
KParadeDB == "paradedb"

OwnedKinds == {KCredentials, KConfig, KStatefulSet, KService, KHeadless,
               KPoolerConfig, KPoolerDeployment, KPoolerService, KMetrics}
Kinds == OwnedKinds \cup {KSuperuserSecret, KBackupCronJob}

VARIABLES
    cr,          \* the descriptor as the store holds it
    objs,        \* Kinds -> the managed object as the store holds it
    stsReady,    \* status.readyReplicas of the live StatefulSet
    pc,          \* position of the reconciliation pass
    paradedb,    \* the pass's in-memory copy of the descriptor
    calls,       \* API calls and events the current pass has issued
    errMsg,      \* the message Reconcile hands to handleError
    result,      \* what the pass returns to the host runtime
    settled,     \* the last pass ran to full success, left the store reconciled,
                 \* and nothing changed since
    got,         \* what r.Get answered to the sync step now between its two calls
    otherGot     \* the same for the step of the second descriptor's pass

vars == <<cr, objs, stsReady, pc, paradedb, calls, errMsg, result, settled, got, otherGot>>

----------------------------------------------------------------------------
\* Descriptor: spec, status and helpers (paradedb_types.go)

\* spec.connectionPooling / spec.monitoring / spec.backup are optional: absent
\* ("nil") or present with the Enabled flag set ("enabled") or cleared
\* ("disabled").  The descriptors drawn here either switch every optional tier
\* off or switch every one on, taking for each field one value on either side
\* of its Is...Enabled helper.
Tiers == {[connectionPooling |-> "nil", monitoring |-> "disabled", backup |-> "nil"],
          [connectionPooling |-> "enabled", monitoring |-> "nil", backup |-> "enabled"]}

\* The other fields of the spec that the loop reads start at the values
\* below: spec.storage.size, spec.serviceType, spec.monitoring.port (0: unset),
\* spec.postgresConfig, spec.connectionPooling.poolMode (the CRD default) and
\* spec.image ("": the field is left out).
SpecSet == {[replicas |-> n,
             superuserSecretRef |-> ref,
             connectionPooling |-> t.connectionPooling,
             monitoring |-> t.monitoring,
             backup |-> t.backup,
             storageSize |-> "10Gi",
             serviceType |-> "ClusterIP",
             monitoringPort |-> 0,
             postgresConfig |-> "default",
             poolMode |-> "transaction",
             image |-> ""] :
            n \in 1..MaxReplicas, ref \in BOOLEAN, t \in Tiers}

NoCondition == [status |-> "", reason |-> "", message |-> ""]

EmptyStatus == [phase |-> "",
                readyReplicas |-> 0,
                observedGeneration |-> 0,
                currentVersion |-> "",
                message |-> "",
                conditions |-> [t \in ConditionTypes |-> NoCondition],
                endpoint |-> <<>>,
                poolerEndpoint |-> <<>>]

NoParadeDB == [exists |-> FALSE]

NewParadeDB(spec) == [exists |-> TRUE,
                      generation |-> 1,
                      finalizer |-> FALSE,
                      deletionTimestamp |-> FALSE,
                      spec |-> spec,
                      status |-> EmptyStatus]

\* GetReplicas: 1 when spec.replicas is absent (written 0 here; the CRD default
\* fills the field in, so the descriptors drawn above always carry it).
GetReplicas(p) == IF p.spec.replicas = 0 THEN 1 ELSE p.spec.replicas

\* GetImage: spec.image, or the default image when the field is empty.
GetImage(p) ==
    IF p.spec.image = "" THEN "paradedb/paradedb:latest" ELSE p.spec.image

IsConnectionPoolingEnabled(p) ==
    p.spec.connectionPooling # "nil" /\ p.spec.connectionPooling = "enabled"

IsBackupEnabled(p) == p.spec.backup # "nil" /\ p.spec.backup = "enabled"

IsMonitoringEnabled(p) == p.spec.monitoring = "nil" \/ p.spec.monitoring = "enabled"

\* The metrics port: spec.monitoring.port when spec.monitoring is present and
\* the port is set, 9187 otherwise.
MetricsPort(p) ==
    IF p.spec.monitoring # "nil" /\ p.spec.monitoringPort # 0
    THEN p.spec.monitoringPort
    ELSE DefaultMetricsPort

\* SetStatusCondition as it would be if a condition already present were kept
\* instead of replaced.
SetStatusConditionIfAbsent(conds, type, status, reason, message) ==
    IF conds[type].status = ""
    THEN [conds EXCEPT ![type] = [status |-> status, reason |-> reason, message |-> message]]
    ELSE conds

\* meta.SetStatusCondition: the condition of that type is replaced.
SetStatusCondition(conds, type, status, reason, message) ==
    [conds EXCEPT ![type] = [status |-> status, reason |-> reason, message |-> message]]

----------------------------------------------------------------------------
\* Managed objects

NoObject == [exists |-> FALSE]

\* Created as it would be without the SetControllerReference call.
CreatedWithoutOwner(shape) == [exists |-> TRUE, owner |-> FALSE, spec |-> shape]

\* controllerutil.SetControllerReference followed by a successful Create.
Created(shape) == [exists |-> TRUE, owner |-> TRUE, spec |-> shape]

CredentialsSecretName(p) ==
    IF p.spec.superuserSecretRef THEN KSuperuserSecret ELSE KCredentials

\* buildStatefulSet: the fields the loop rewrites on every pass (replicas, pod
\* template) and the ones set at creation only.
buildStatefulSet(p) ==
    [replicas |-> GetReplicas(p),
     template |-> [image |-> GetImage(p),
                   credentialsSecretName |-> CredentialsSecretName(p),
                   exporter |-> IsMonitoringEnabled(p),
                   exporterPort |-> IF IsMonitoringEnabled(p) THEN MetricsPort(p) ELSE 0],
     serviceName |-> KHeadless,
     selector |-> "paradedb",
     volumeClaimTemplates |-> [storage |-> p.spec.storageSize]]

\* buildService: selector, type and port; the cluster-internal address and
\* the session affinity are left unset.
buildService(p) ==
    [port |-> PostgresPort,
     type |-> p.spec.serviceType,
     selector |-> "paradedb",
     clusterIP |-> "",
     sessionAffinity |-> ""]

\* The store fills in what a created Service leaves unset: it allocates the
\* cluster-internal address and defaults the session affinity.
Allocated(service) ==
    [service EXCEPT !.clusterIP = "10.96.0.10", !.sessionAffinity = "None"]

\* The pooler's objects: pgbouncer.ini is printed from the pooling settings,
\* the Deployment carries them in its environment, the Service has the
\* descriptor's Service type.
buildPoolerConfig(p) == <<"pgbouncer.ini", p.spec.poolMode>>

buildPoolerDeployment(p) ==
    [credentialsSecretName |-> CredentialsSecretName(p),
     poolMode |-> p.spec.poolMode]

buildPoolerService(p) ==
    [port |-> PostgresPort, selector |-> "pgbouncer", type |-> p.spec.serviceType]

Call(verb, kind) == [verb |-> verb, kind |-> kind]

WriteVerbs == {"create", "update", "statusUpdate"}

\* What Reconcile returns: ctrl.Result{Requeue, RequeueAfter} and the error.
Result(requeue, after, err) == [requeue |-> requeue, after |-> after, err |-> err]
NoResult == [requeue |-> FALSE, after |-> -1, err |-> FALSE]

\* A sync step makes two calls to the store: r.Get, then r.Create or r.Update
\* of what it has built from the answer.  Between the two the pass holds the
\* answer in got, and other clients of the store act.  NoGet: no step is
\* between its two calls; Held(kind): the step on that object is.
NoGet == [kind |-> "none"]
Held(kind) == got # NoGet /\ got.kind = kind

----------------------------------------------------------------------------
Init ==
    /\ cr = NoParadeDB
    /\ objs = [k \in Kinds |-> NoObject]
    /\ stsReady = 0
    /\ pc = "idle"
    /\ paradedb = NoParadeDB
    /\ calls = <<>>
    /\ errMsg = ""
    /\ result = NoResult
    /\ settled = FALSE
    /\ got = NoGet
    /\ otherGot = NoGet

passVars == <<pc, paradedb, calls, errMsg, result, got>>

----------------------------------------------------------------------------
\* External actors.  The user acts between passes; the user acting on the
\* descriptor during a pass, the workload controller and other clients acting
\* between the r.Get and the write of a step, and the second descriptor's
\* steps running beside a pass, are the actions that say so.  A deletion pass
\* reads nothing but the descriptor, so the ready-replica count and the
\* referenced Secret are left alone once the deletion timestamp is set.

Live == IF cr.exists THEN ~cr.deletionTimestamp ELSE TRUE

\* The user creates the descriptor (validated by the CRD schema).
CreateParadeDB ==
    /\ pc = "idle"
    /\ ~cr.exists
    /\ \A k \in OwnedKinds : ~objs[k].exists
    /\ \E spec \in SpecSet : cr' = NewParadeDB(spec)
    /\ settled' = FALSE
    /\ UNCHANGED <<objs, stsReady, passVars, otherGot>>

\* The user scales a live descriptor: spec.replicas is edited (within the CRD's
\* range) and the store bumps metadata.generation.
EditSpec ==
    /\ pc = "idle"
    /\ cr.exists
    /\ ~cr.deletionTimestamp
    /\ cr.generation < MaxGeneration
    /\ \E n \in (1..MaxReplicas) \ {cr.spec.replicas} :
        cr' = [cr EXCEPT !.spec.replicas = n, !.generation = @ + 1]
    /\ settled' = FALSE
    /\ UNCHANGED <<objs, stsReady, passVars, otherGot>>

\* The user deletes the descriptor.  It carries the finalizer, so the store
\* only stamps the deletion timestamp.
DeleteParadeDB ==
    /\ pc = "idle"
    /\ cr.exists
    /\ ~cr.deletionTimestamp
    /\ cr.finalizer
    /\ cr' = [cr EXCEPT !.deletionTimestamp = TRUE]
    /\ settled' = FALSE
    /\ UNCHANGED <<objs, stsReady, passVars, otherGot>>

\* The objects left once the garbage collector has removed those whose owner
\* is gone.
GarbageCollected(os) ==
    [k \in Kinds |-> IF os[k].exists /\ os[k].owner THEN NoObject ELSE os[k]]

\* The store erases a descriptor that carries no finalizer, when the user
\* deletes it or, under deletion, once its finalizer is gone; the garbage
\* collector then removes its dependents.
Erase ==
    /\ pc = "idle"
    /\ cr.exists
    /\ ~cr.finalizer
    /\ cr' = NoParadeDB
    /\ objs' = GarbageCollected(objs)
    /\ stsReady' = 0
    /\ settled' = FALSE
    /\ UNCHANGED <<passVars, otherGot>>

\* The workload controller reports another ready-replica count, between
\* passes or between the r.Get and the r.Status().Update of updateStatus.  The
\* count rises only up to the StatefulSet's replica count; it may exceed it
\* while a scale-down is still in progress.
SetReadyReplicas ==
    /\ pc = "idle" \/ (pc = "updateStatus" /\ Held(KStatefulSet))
    /\ objs[KStatefulSet].exists
    /\ Live
    /\ \E r \in 0..MaxReplicas :
        /\ r # stsReady
        /\ r < stsReady \/ r <= objs[KStatefulSet].spec.replicas
        /\ stsReady' = r
    /\ settled' = FALSE
    /\ UNCHANGED <<cr, objs, passVars, otherGot>>

\* The user creates or removes the Secret that superuserSecretRef names.
CreateSuperuserSecret ==
    /\ pc = "idle"
    /\ Live
    /\ ~objs[KSuperuserSecret].exists
    /\ objs' = [objs EXCEPT ![KSuperuserSecret] =
                    [exists |-> TRUE, owner |-> FALSE, spec |-> "user"]]
    /\ settled' = FALSE
    /\ UNCHANGED <<cr, stsReady, passVars, otherGot>>

DeleteSuperuserSecret ==
    /\ pc = "idle"
    /\ Live
    /\ objs[KSuperuserSecret].exists
    /\ objs' = [objs EXCEPT ![KSuperuserSecret] = NoObject]
    /\ settled' = FALSE
    /\ UNCHANGED <<cr, stsReady, passVars, otherGot>>

\* The user edits a field of the spec other than the replica count: a larger
\* volume, another Service type, a monitoring section with its own port,
\* other PostgreSQL parameters, or another image.
EditedSpecs(spec) ==
    {[spec EXCEPT !.storageSize = "20Gi"],
     [spec EXCEPT !.serviceType = "LoadBalancer"],
     [spec EXCEPT !.monitoring = "enabled", !.monitoringPort = 9200],
     [spec EXCEPT !.postgresConfig = "tuned"],
     [spec EXCEPT !.image = "paradedb/paradedb:0.15.1"]} \ {spec}

EditSpecField ==
    /\ pc = "idle"
    /\ cr.exists
    /\ ~cr.deletionTimestamp
    /\ cr.generation < MaxGeneration
    /\ \E spec \in EditedSpecs(cr.spec) :
        cr' = [cr EXCEPT !.spec = spec, !.generation = @ + 1]
    /\ settled' = FALSE
    /\ UNCHANGED <<objs, stsReady, passVars, otherGot>>

\* The user scales or deletes the descriptor while a pass is in flight, after
\* the pass has fetched it.
EditSpecDuringPass ==
    /\ pc \notin {"idle", "done"}
    /\ cr.exists
    /\ ~cr.deletionTimestamp
    /\ cr.generation < MaxGeneration
    /\ \E n \in (1..MaxReplicas) \ {cr.spec.replicas} :
        cr' = [cr EXCEPT !.spec.replicas = n, !.generation = @ + 1]
    /\ settled' = FALSE
    /\ UNCHANGED <<objs, stsReady, passVars, otherGot>>

DeleteParadeDBDuringPass ==
    /\ pc \notin {"idle", "done"}
    /\ cr.exists
    /\ ~cr.deletionTimestamp
    /\ cr.finalizer
    /\ cr' = [cr EXCEPT !.deletionTimestamp = TRUE]
    /\ settled' = FALSE
    /\ UNCHANGED <<objs, stsReady, passVars, otherGot>>

\* The user edits the pooling section of a live descriptor: switches pooling
\* on or off, or, with pooling on, picks another pool mode or another Service
\* type.
PoolingEdits(spec) ==
    IF spec.connectionPooling = "enabled"
    THEN {[spec EXCEPT !.connectionPooling = "disabled"],
          [spec EXCEPT !.poolMode = "session"],
          [spec EXCEPT !.serviceType = "LoadBalancer"]} \ {spec}
    ELSE {[spec EXCEPT !.connectionPooling = "enabled"]}

EditPooling ==
    /\ pc = "idle"
    /\ cr.exists
    /\ ~cr.deletionTimestamp
    /\ cr.generation < MaxGeneration
    /\ \E spec \in PoolingEdits(cr.spec) :
        cr' = [cr EXCEPT !.spec = spec, !.generation = @ + 1]
    /\ settled' = FALSE
    /\ UNCHANGED <<objs, stsReady, passVars, otherGot>>

\* An actor other than the loop deletes an owned object or changes one.  It
\* does so to a store that the last pass has left fully reconciled, one object
\* at a time, or to the object that a step of the pass in flight has just
\* read and not yet written.
ExternalDelete ==
    /\ Live
    /\ settled
    /\ \E k \in OwnedKinds :
        /\ pc = "idle" \/ Held(k)
        /\ objs[k].exists
        /\ objs' = [objs EXCEPT ![k] = NoObject]
        /\ stsReady' = IF k = KStatefulSet THEN 0 ELSE stsReady
    /\ settled' = FALSE
    /\ UNCHANGED <<cr, passVars, otherGot>>

\* What an actor other than the loop may turn an owned object into: another
\* replica count or pod template of the StatefulSet, another port, type or
\* selector of the Service, another text or one more key in the ConfigMap.
Drifted(k, shape) ==
    CASE k = KStatefulSet ->
             {[shape EXCEPT !.replicas = n] : n \in (0..MaxReplicas) \ {shape.replicas}}
             \cup {[shape EXCEPT !.template.credentialsSecretName = "other"]}
      [] k = KService ->
             {[shape EXCEPT !.port = 0],
              [shape EXCEPT !.type = "NodePort"],
              [shape EXCEPT !.selector = "other"]}
      [] k = KConfig ->
             {[f \in DOMAIN shape |-> IF f = "pg_hba.conf" THEN <<f, "other">> ELSE shape[f]],
              [f \in DOMAIN shape \cup {"extra.conf"} |->
                  IF f \in DOMAIN shape THEN shape[f] ELSE <<f, "other">>]}
      [] OTHER -> {}

ExternalChange ==
    /\ Live
    /\ settled
    /\ \E k \in {KStatefulSet, KService, KConfig} :
        /\ pc = "idle" \/ Held(k)
        /\ objs[k].exists
        /\ \E shape \in Drifted(k, objs[k].spec) \ {objs[k].spec} :
            objs' = [objs EXCEPT ![k].spec = shape]
    /\ settled' = FALSE
    /\ UNCHANGED <<cr, stsReady, passVars, otherGot>>

----------------------------------------------------------------------------
\* Reconcile: one pass, step by step

Log(c) == calls' = Append(calls, c)
Log2(c, d) == calls' = Append(Append(calls, c), d)

\* The pass returns res to the host runtime.
Finish(res) ==
    /\ pc' = "done"
    /\ result' = res

\* AfterHeadless as it would be if the pooler were reconciled whatever the
\* descriptor says.
AfterHeadlessIgnoresSetting(p) == "poolerConfig"

\* The first sync step that follows the headless Service, the pooler and the
\* metrics Service (Reconcile skips the tiers the descriptor disables).
AfterMetrics(p) == IF IsBackupEnabled(p) THEN "backup" ELSE "updateStatus"
AfterPooler(p) == IF IsMonitoringEnabled(p) THEN "metrics" ELSE AfterMetrics(p)
AfterHeadless(p) == IF IsConnectionPoolingEnabled(p) THEN "poolerConfig" ELSE AfterPooler(p)

\* Dispatch as it would be if the deletion branch went straight to the removal
\* of the finalizer, without the cleanup.
DispatchSkipsCleanup(p) ==
    IF p.deletionTimestamp
    THEN (IF p.finalizer THEN "removeFinalizer" ELSE "done")
    ELSE IF ~p.finalizer THEN "addFinalizer"
    ELSE IF p.status.phase = "" THEN "initStatus"
    ELSE IF p.status.phase = ParadeDBPhasePending THEN "pending"
    ELSE "credentials"

\* Dispatch as it would be if the status were initialised before the finalizer
\* is added.
DispatchInitializesStatusFirst(p) ==
    IF p.deletionTimestamp
    THEN (IF p.finalizer THEN "deleting" ELSE "done")
    ELSE IF p.status.phase = "" THEN "initStatus"
    ELSE IF ~p.finalizer THEN "addFinalizer"
    ELSE IF p.status.phase = ParadeDBPhasePending THEN "pending"
    ELSE "credentials"

\* Dispatch as it would be if a descriptor with the deletion timestamp set and
\* the finalizer gone fell through to the creation path.
DispatchFallsThrough(p) ==
    IF p.deletionTimestamp /\ p.finalizer THEN "deleting"
    ELSE IF ~p.finalizer THEN "addFinalizer"
    ELSE IF p.status.phase = "" THEN "initStatus"
    ELSE IF p.status.phase = ParadeDBPhasePending THEN "pending"
    ELSE "credentials"

\* Dispatch as it would be if a descriptor in phase Failed were left alone.
DispatchGivesUpOnFailed(p) ==
    IF p.deletionTimestamp
    THEN (IF p.finalizer THEN "deleting" ELSE "done")
    ELSE IF ~p.finalizer THEN "addFinalizer"
    ELSE IF p.status.phase = "" THEN "initStatus"
    ELSE IF p.status.phase = ParadeDBPhasePending THEN "pending"
    ELSE IF p.status.phase = ParadeDBPhaseFailed THEN "done"
    ELSE "credentials"

\* Dispatch as it would be if the sync steps ran only in the pass that leaves
\* phase Pending, later passes going straight to the Status Aggregator.
DispatchSyncsOnlyFromPending(p) ==
    IF p.deletionTimestamp
    THEN (IF p.finalizer THEN "deleting" ELSE "done")
    ELSE IF ~p.finalizer THEN "addFinalizer"
    ELSE IF p.status.phase = "" THEN "initStatus"
    ELSE IF p.status.phase = ParadeDBPhasePending THEN "pending"
    ELSE "updateStatus"

\* Where Reconcile goes with the descriptor it fetched.  With the deletion
\* timestamp set and the finalizer gone it returns at once.
Dispatch(p) ==
    IF p.deletionTimestamp
    THEN (IF p.finalizer THEN "deleting" ELSE "done")
    ELSE IF ~p.finalizer THEN "addFinalizer"
    ELSE IF p.status.phase = "" THEN "initStatus"
    ELSE IF p.status.phase = ParadeDBPhasePending THEN "pending"
    ELSE "credentials"

\* Any call to the store (Get, Create, Update, Status().Update) may be answered
\* with an error; each step below has one branch per outcome of its calls.

\* The store's optimistic-concurrency check on a write of the descriptor: the
\* resourceVersion the pass holds is the stored one, that is, no other actor
\* has written the descriptor since the pass read it (a write of the pass
\* itself hands the new version back to the pass's copy).  Other actors write
\* the spec, which raises the generation, and the deletion timestamp.
VersionMatches(stored, held) ==
    /\ stored.exists
    /\ stored.generation = held.generation
    /\ stored.spec = held.spec
    /\ stored.deletionTimestamp = held.deletionTimestamp

\* r.Get of the descriptor.  A descriptor that is gone ends the pass with no
\* error; any other Get error is returned.
ReconcileGet ==
    /\ pc = "idle"
    /\ Log(Call("get", KParadeDB))
    /\ \/ /\ ~cr.exists
          /\ Finish(Result(FALSE, 0, FALSE))
          /\ UNCHANGED paradedb
       \/ /\ Finish(Result(FALSE, 0, TRUE))
          /\ UNCHANGED paradedb
       \/ /\ cr.exists
          /\ paradedb' = cr
          /\ pc' = Dispatch(cr)
          /\ result' = IF Dispatch(cr) = "done" THEN Result(FALSE, 0, FALSE) ELSE result
    /\ UNCHANGED <<cr, objs, stsReady, errMsg, settled, got, otherGot>>

\* ReconcileDeleting as it would be if the pass returned once Deleting is
\* persisted, leaving the cleanup and the finalizer to a later pass.
ReconcileDeletingStopsAfterStatus ==
    /\ pc = "deleting"
    /\ paradedb' = [paradedb EXCEPT !.status.phase = ParadeDBPhaseDeleting]
    /\ Log(Call("statusUpdate", KParadeDB))
    /\ \/ /\ VersionMatches(cr, paradedb)
          /\ cr' = [cr EXCEPT !.status = paradedb'.status]
          /\ Finish(Result(TRUE, 0, FALSE))
       \/ /\ Finish(Result(FALSE, 0, TRUE))
          /\ UNCHANGED cr
    /\ UNCHANGED <<objs, stsReady, errMsg, settled, got, otherGot>>

\* Deletion: status.phase = Deleting is written first.
ReconcileDeleting ==
    /\ pc = "deleting"
    /\ paradedb' = [paradedb EXCEPT !.status.phase = ParadeDBPhaseDeleting]
    /\ Log(Call("statusUpdate", KParadeDB))
    /\ \/ /\ VersionMatches(cr, paradedb)
          /\ cr' = [cr EXCEPT !.status = paradedb'.status]
          /\ pc' = "finalize"
          /\ UNCHANGED result
       \/ /\ Finish(Result(FALSE, 0, TRUE))
          /\ UNCHANGED cr
    /\ UNCHANGED <<objs, stsReady, errMsg, settled, got, otherGot>>

\* finalizeParadeDB as it would be if it deleted the owned objects itself.
finalizeParadeDBDeletesOwned ==
    /\ pc = "finalize"
    /\ Log2(Call("delete", KStatefulSet), Call("event", "Deleted"))
    /\ objs' = [k \in Kinds |-> IF k \in OwnedKinds THEN NoObject ELSE objs[k]]
    /\ pc' = "removeFinalizer"
    /\ UNCHANGED <<cr, stsReady, paradedb, errMsg, result, settled, got, otherGot>>

\* finalizeParadeDB: emits the Deleted event and returns nil; the owned
\* objects are left to the garbage collector.
finalizeParadeDB ==
    /\ pc = "finalize"
    /\ Log(Call("event", "Deleted"))
    /\ pc' = "removeFinalizer"
    /\ UNCHANGED <<cr, objs, stsReady, paradedb, errMsg, result, settled, got, otherGot>>

\* RemoveFinalizer as it would be if the error of r.Update were dropped.
RemoveFinalizerSwallowsError ==
    /\ pc = "removeFinalizer"
    /\ paradedb' = [paradedb EXCEPT !.finalizer = FALSE]
    /\ Log(Call("update", KParadeDB))
    /\ \/ /\ VersionMatches(cr, paradedb)
          /\ cr' = [cr EXCEPT !.finalizer = FALSE]
          /\ Finish(Result(FALSE, 0, FALSE))
       \/ /\ Finish(Result(FALSE, 0, FALSE))
          /\ UNCHANGED cr
    /\ UNCHANGED <<objs, stsReady, errMsg, settled, got, otherGot>>

\* controllerutil.RemoveFinalizer and r.Update, after finalizeParadeDB
\* returned nil.
RemoveFinalizer ==
    /\ pc = "removeFinalizer"
    /\ paradedb' = [paradedb EXCEPT !.finalizer = FALSE]
    /\ Log(Call("update", KParadeDB))
    /\ \/ /\ VersionMatches(cr, paradedb)
          /\ cr' = [cr EXCEPT !.finalizer = FALSE]
          /\ Finish(Result(FALSE, 0, FALSE))
       \/ /\ Finish(Result(FALSE, 0, TRUE))
          /\ UNCHANGED cr
    /\ UNCHANGED <<objs, stsReady, errMsg, settled, got, otherGot>>

\* AddFinalizer as it would be without the early return: the same pass goes on
\* to the sync steps.
AddFinalizerAndContinue ==
    /\ pc = "addFinalizer"
    /\ paradedb' = [paradedb EXCEPT !.finalizer = TRUE]
    /\ Log(Call("update", KParadeDB))
    /\ \/ /\ VersionMatches(cr, paradedb)
          /\ cr' = [cr EXCEPT !.finalizer = TRUE]
          /\ pc' = "credentials"
          /\ UNCHANGED result
       \/ /\ Finish(Result(FALSE, 0, TRUE))
          /\ UNCHANGED cr
    /\ UNCHANGED <<objs, stsReady, errMsg, settled, got, otherGot>>

\* AddFinalizer as it would be against a store without the version check: the
\* pass's copy replaces the stored metadata and spec.
AddFinalizerForcesWrite ==
    /\ pc = "addFinalizer"
    /\ paradedb' = [paradedb EXCEPT !.finalizer = TRUE]
    /\ Log(Call("update", KParadeDB))
    /\ \/ /\ cr' = [paradedb' EXCEPT !.status = cr.status]
          /\ Finish(Result(TRUE, 0, FALSE))
       \/ /\ Finish(Result(FALSE, 0, TRUE))
          /\ UNCHANGED cr
    /\ UNCHANGED <<objs, stsReady, errMsg, settled, got, otherGot>>

\* controllerutil.AddFinalizer and r.Update; the pass ends there and asks for
\* an immediate requeue.
AddFinalizer ==
    /\ pc = "addFinalizer"
    /\ paradedb' = [paradedb EXCEPT !.finalizer = TRUE]
    /\ Log(Call("update", KParadeDB))
    /\ \/ /\ VersionMatches(cr, paradedb)
          /\ cr' = [cr EXCEPT !.finalizer = TRUE]
          /\ Finish(Result(TRUE, 0, FALSE))
       \/ /\ Finish(Result(FALSE, 0, TRUE))
          /\ UNCHANGED cr
    /\ UNCHANGED <<objs, stsReady, errMsg, settled, got, otherGot>>

\* InitializeStatus as it would be without the early return: the same pass goes
\* on to the Pending branch.
InitializeStatusAndContinue ==
    /\ pc = "initStatus"
    /\ paradedb' = [paradedb EXCEPT !.status.phase = ParadeDBPhasePending]
    /\ Log(Call("statusUpdate", KParadeDB))
    /\ \/ /\ VersionMatches(cr, paradedb)
          /\ cr' = [cr EXCEPT !.status = paradedb'.status]
          /\ pc' = "pending"
          /\ UNCHANGED result
       \/ /\ Finish(Result(FALSE, 0, TRUE))
          /\ UNCHANGED cr
    /\ UNCHANGED <<objs, stsReady, errMsg, settled, got, otherGot>>

\* Status.Phase == "": Pending is written and the pass ends with a requeue.
InitializeStatus ==
    /\ pc = "initStatus"
    /\ paradedb' = [paradedb EXCEPT !.status.phase = ParadeDBPhasePending]
    /\ Log(Call("statusUpdate", KParadeDB))
    /\ \/ /\ VersionMatches(cr, paradedb)
          /\ cr' = [cr EXCEPT !.status = paradedb'.status]
          /\ Finish(Result(TRUE, 0, FALSE))
       \/ /\ Finish(Result(FALSE, 0, TRUE))
          /\ UNCHANGED cr
    /\ UNCHANGED <<objs, stsReady, errMsg, settled, got, otherGot>>

\* Status.Phase == Pending: Creating is written, the Creating event emitted,
\* and the pass goes on to the sync steps.
PendingToCreating ==
    /\ pc = "pending"
    /\ paradedb' = [paradedb EXCEPT !.status.phase = ParadeDBPhaseCreating]
    /\ \/ /\ VersionMatches(cr, paradedb)
          /\ cr' = [cr EXCEPT !.status = paradedb'.status]
          /\ Log2(Call("statusUpdate", KParadeDB), Call("event", "Creating"))
          /\ pc' = "credentials"
          /\ UNCHANGED result
       \/ /\ Log(Call("statusUpdate", KParadeDB))
          /\ Finish(Result(FALSE, 0, TRUE))
          /\ UNCHANGED cr
    /\ UNCHANGED <<objs, stsReady, errMsg, settled, got, otherGot>>

----------------------------------------------------------------------------
\* Sub-resource sync steps.  Every r.Get, r.Create and r.Update may fail; an
\* error other than NotFound on Get, or any error on Create or Update, is
\* returned to Reconcile, which hands it to handleError with the step's
\* message.

Fail(msg) == pc' = "handleError" /\ errMsg' = msg
Goto(next) == pc' = next /\ UNCHANGED errMsg

\* The answer of r.Get that the step goes on with: the object, or NotFound.
Holds(kind) ==
    /\ Log(Call("get", kind))
    /\ got' = [kind |-> kind, obj |-> objs[kind]]
    /\ UNCHANGED <<pc, errMsg, objs>>

\* r.Create of the object built.  The store refuses it (AlreadyExists) when an
\* object of that name is there by now; any other error fails it as well.
CreateHeld(kind, desired, events, msg, next) ==
    /\ Held(kind)
    /\ ~got.obj.exists
    /\ got' = NoGet
    /\ \/ /\ ~objs[kind].exists                   \* Create succeeds
          /\ calls' = Append(calls, Call("create", kind)) \o events
          /\ objs' = [objs EXCEPT ![kind] = Created(desired)]
          /\ Goto(next)
       \/ /\ Log(Call("create", kind))            \* Create fails
          /\ Fail(msg)
          /\ UNCHANGED objs

\* r.Update of the copy read, its mutable fields overwritten.  The store
\* refuses it when the object is gone (NotFound) or has been written since it
\* was read (Conflict); any other error fails it as well.
UpdateHeld(kind, updated, msg, next) ==
    /\ Held(kind)
    /\ got.obj.exists
    /\ got' = NoGet
    /\ \/ /\ objs[kind] = got.obj                 \* Update succeeds
          /\ Log(Call("update", kind))
          /\ objs' = [objs EXCEPT ![kind].spec = updated]
          /\ Goto(next)
       \/ /\ Log(Call("update", kind))            \* Update fails
          /\ Fail(msg)
          /\ UNCHANGED objs

\* Get; if NotFound: SetControllerReference, Create, events.  An object that
\* exists is left as it is.
GetOrCreate(kind, desired, events, msg, next) ==
    \/ /\ got = NoGet                             \* Get fails
       /\ Log(Call("get", kind))
       /\ Fail(msg)
       /\ UNCHANGED <<objs, got>>
    \/ /\ got = NoGet                             \* found
       /\ objs[kind].exists
       /\ Log(Call("get", kind))
       /\ Goto(next)
       /\ UNCHANGED <<objs, got>>
    \/ /\ got = NoGet                             \* NotFound
       /\ ~objs[kind].exists
       /\ Holds(kind)
    \/ CreateHeld(kind, desired, events, msg, next)

\* Get; if NotFound: SetControllerReference, Create, events.  An object that
\* exists has its mutable fields overwritten (updated is the object after
\* that) and is written back with Update.
GetCreateOrUpdate(kind, desired, updated, events, msg, next) ==
    \/ /\ got = NoGet                             \* Get fails
       /\ Log(Call("get", kind))
       /\ Fail(msg)
       /\ UNCHANGED <<objs, got>>
    \/ /\ got = NoGet                             \* found or NotFound
       /\ Holds(kind)
    \/ CreateHeld(kind, desired, events, msg, next)
    \/ UpdateHeld(kind, updated, msg, next)

syncFrame == <<cr, stsReady, paradedb, result, settled, otherGot>>

\* With spec.auth.superuserSecretRef set the referenced Secret is only
\* fetched, and any Get error (NotFound included) fails the step.  Without
\* it <name>-credentials is created when it is not there.
CredentialsMsg == "Failed to reconcile credentials secret"

\* reconcileCredentialsSecret as it would be without the return that ends the
\* superuserSecretRef branch: <name>-credentials is generated as well.
reconcileCredentialsSecretGeneratesToo ==
    /\ pc = "credentials"
    /\ \/ /\ paradedb.spec.superuserSecretRef
          /\ ~objs[KSuperuserSecret].exists
          /\ Log(Call("get", KSuperuserSecret))
          /\ Fail(CredentialsMsg)
          /\ UNCHANGED <<objs, got>>
       \/ /\ paradedb.spec.superuserSecretRef => objs[KSuperuserSecret].exists
          /\ GetOrCreate(KCredentials, "generated",
                         <<Call("event", "SecretCreated")>>, CredentialsMsg, "config")
    /\ UNCHANGED syncFrame

\* reconcileCredentialsSecret as it would be if a referenced Secret that is not
\* found were tolerated (only other Get errors fail the step).
reconcileCredentialsSecretToleratesNotFound ==
    /\ pc = "credentials"
    /\ \/ /\ paradedb.spec.superuserSecretRef
          /\ Log(Call("get", KSuperuserSecret))
          /\ \/ Goto("config")
             \/ objs[KSuperuserSecret].exists /\ Fail(CredentialsMsg)
          /\ UNCHANGED <<objs, got>>
       \/ /\ ~paradedb.spec.superuserSecretRef
          /\ GetOrCreate(KCredentials, "generated",
                         <<Call("event", "SecretCreated")>>, CredentialsMsg, "config")
    /\ UNCHANGED syncFrame

\* reconcileCredentialsSecret as it would be if an existing <name>-credentials
\* were written again with a fresh password.
reconcileCredentialsSecretRegenerates ==
    /\ pc = "credentials"
    /\ \/ /\ paradedb.spec.superuserSecretRef
          /\ Log(Call("get", KSuperuserSecret))
          /\ \/ objs[KSuperuserSecret].exists /\ Goto("config")
             \/ Fail(CredentialsMsg)
          /\ UNCHANGED <<objs, got>>
       \/ /\ ~paradedb.spec.superuserSecretRef
          /\ GetCreateOrUpdate(KCredentials, "generated", "generated",
                               <<Call("event", "SecretCreated")>>, CredentialsMsg, "config")
    /\ UNCHANGED syncFrame

reconcileCredentialsSecret ==
    /\ pc = "credentials"
    /\ \/ /\ paradedb.spec.superuserSecretRef
          /\ Log(Call("get", KSuperuserSecret))
          /\ \/ objs[KSuperuserSecret].exists /\ Goto("config")
             \/ Fail(CredentialsMsg)           \* NotFound or another Get error
          /\ UNCHANGED <<objs, got>>
       \/ /\ ~paradedb.spec.superuserSecretRef
          /\ GetOrCreate(KCredentials, "generated",
                         <<Call("event", "SecretCreated")>>, CredentialsMsg, "config")
    /\ UNCHANGED syncFrame

\* The three configuration files of <name>-config, as the Config Builder
\* returns them for the descriptor.
\* The Config Builder: each text is a function of the descriptor, kept as the
\* name of the text and the part of the spec that goes into it.
buildPostgresConfig(p) == <<"postgresql.conf", p.spec.postgresConfig>>
buildPgHBAConfig(p) == <<"pg_hba.conf", "default">>
buildInitScript(p) == <<"init.sql", "default">>

\* The data map of <name>-config.
ConfigData(p) ==
    [f \in {"postgresql.conf", "pg_hba.conf", "init.sql"} |->
        CASE f = "postgresql.conf" -> buildPostgresConfig(p)
          [] f = "pg_hba.conf" -> buildPgHBAConfig(p)
          [] f = "init.sql" -> buildInitScript(p)]

\* reconcileConfigMap as it would be if the update merged the three files
\* into the data found, keeping the keys it does not know.
reconcileConfigMapMerges ==
    /\ pc = "config"
    /\ GetCreateOrUpdate(KConfig, ConfigData(paradedb),
                         IF objs[KConfig].exists
                         THEN [f \in DOMAIN objs[KConfig].spec \cup DOMAIN ConfigData(paradedb) |->
                                  IF f \in DOMAIN ConfigData(paradedb)
                                  THEN ConfigData(paradedb)[f]
                                  ELSE objs[KConfig].spec[f]]
                         ELSE ConfigData(paradedb),
                         <<>>, "Failed to reconcile ConfigMap", "statefulset")
    /\ UNCHANGED syncFrame

reconcileConfigMap ==
    /\ pc = "config"
    /\ GetCreateOrUpdate(KConfig, ConfigData(paradedb), ConfigData(paradedb), <<>>,
                         "Failed to reconcile ConfigMap", "statefulset")
    /\ UNCHANGED syncFrame

\* reconcileStatefulSet as it would be if an existing StatefulSet were left as
\* it is found.
reconcileStatefulSetCreateOnly ==
    /\ pc = "statefulset"
    /\ GetOrCreate(KStatefulSet, buildStatefulSet(paradedb),
                   <<Call("event", "StatefulSetCreated")>>,
                   "Failed to reconcile StatefulSet", "service")
    /\ UNCHANGED syncFrame

\* reconcileStatefulSet as it would be if an existing StatefulSet were replaced
\* by the whole spec built from the descriptor.
reconcileStatefulSetReplacesSpec ==
    /\ pc = "statefulset"
    /\ GetCreateOrUpdate(KStatefulSet, buildStatefulSet(paradedb),
                         buildStatefulSet(paradedb),
                         <<Call("event", "StatefulSetCreated")>>,
                         "Failed to reconcile StatefulSet", "service")
    /\ UNCHANGED syncFrame

\* Update of an existing StatefulSet: Spec.Replicas and Spec.Template only.
UpdatedStatefulSet(old, desired) ==
    [old EXCEPT !.replicas = desired.replicas, !.template = desired.template]

reconcileStatefulSet ==
    /\ pc = "statefulset"
    /\ GetCreateOrUpdate(KStatefulSet, buildStatefulSet(paradedb),
                         IF objs[KStatefulSet].exists
                         THEN UpdatedStatefulSet(objs[KStatefulSet].spec,
                                                 buildStatefulSet(paradedb))
                         ELSE buildStatefulSet(paradedb),
                         <<Call("event", "StatefulSetCreated")>>,
                         "Failed to reconcile StatefulSet", "service")
    /\ UNCHANGED syncFrame

\* reconcileService as it would be if an existing Service were replaced by the
\* whole spec built from the descriptor.
reconcileServiceReplacesSpec ==
    /\ pc = "service"
    /\ GetCreateOrUpdate(KService, Allocated(buildService(paradedb)),
                         buildService(paradedb),
                         <<Call("event", "ServiceCreated")>>,
                         "Failed to reconcile Service", "headless")
    /\ UNCHANGED syncFrame

\* Update of an existing Service: Spec.Ports, Spec.Type and Spec.Selector.
UpdatedService(old, desired) ==
    [old EXCEPT !.port = desired.port, !.type = desired.type,
                !.selector = desired.selector]

reconcileService ==
    /\ pc = "service"
    /\ GetCreateOrUpdate(KService, Allocated(buildService(paradedb)),
                         IF objs[KService].exists
                         THEN UpdatedService(objs[KService].spec, buildService(paradedb))
                         ELSE Allocated(buildService(paradedb)),
                         <<Call("event", "ServiceCreated")>>,
                         "Failed to reconcile Service", "headless")
    /\ UNCHANGED syncFrame

\* reconcileHeadlessService as it would be if a pass over a descriptor with
\* pooling off removed the pooler's objects on its way.
reconcileHeadlessServiceRetractsPooler ==
    /\ pc = "headless"
    /\ \/ /\ IsConnectionPoolingEnabled(paradedb) \/ ~objs[KHeadless].exists \/ got # NoGet
          /\ GetOrCreate(KHeadless, [port |-> PostgresPort, clusterIP |-> "None"], <<>>,
                         "Failed to reconcile Headless Service", AfterHeadless(paradedb))
       \/ /\ ~IsConnectionPoolingEnabled(paradedb)
          /\ objs[KHeadless].exists
          /\ got = NoGet
          /\ calls' = calls \o <<Call("get", KHeadless), Call("delete", KPoolerConfig),
                                  Call("delete", KPoolerDeployment),
                                  Call("delete", KPoolerService)>>
          /\ objs' = [k \in Kinds |->
                         IF k \in {KPoolerConfig, KPoolerDeployment, KPoolerService}
                         THEN NoObject ELSE objs[k]]
          /\ Goto(AfterHeadless(paradedb))
          /\ UNCHANGED got
    /\ UNCHANGED syncFrame

reconcileHeadlessService ==
    /\ pc = "headless"
    /\ GetOrCreate(KHeadless, [port |-> PostgresPort, clusterIP |-> "None"], <<>>,
                   "Failed to reconcile Headless Service", AfterHeadless(paradedb))
    /\ UNCHANGED syncFrame

\* reconcileConnectionPooler: the pooler's ConfigMap, Deployment and Service,
\* each created when it is not there.
PoolerMsg == "Failed to reconcile Connection Pooler"

reconcilePoolerConfigMap ==
    /\ pc = "poolerConfig"
    /\ GetOrCreate(KPoolerConfig, buildPoolerConfig(paradedb), <<>>, PoolerMsg,
                   "poolerDeployment")
    /\ UNCHANGED syncFrame

reconcilePoolerDeployment ==
    /\ pc = "poolerDeployment"
    /\ GetOrCreate(KPoolerDeployment, buildPoolerDeployment(paradedb),
                   <<Call("event", "PoolerCreated")>>, PoolerMsg, "poolerService")
    /\ UNCHANGED syncFrame

reconcilePoolerService ==
    /\ pc = "poolerService"
    /\ GetOrCreate(KPoolerService, buildPoolerService(paradedb),
                   <<>>, PoolerMsg, AfterPooler(paradedb))
    /\ UNCHANGED syncFrame

reconcileMetricsService ==
    /\ pc = "metrics"
    /\ GetOrCreate(KMetrics, [selector |-> "paradedb", port |-> MetricsPort(paradedb)], <<>>,
                   "Failed to reconcile Metrics Service", AfterMetrics(paradedb))
    /\ UNCHANGED syncFrame

\* The backup step is a stub: no call, returns nil.
reconcileBackupCronJob ==
    /\ pc = "backup"
    /\ pc' = "updateStatus"
    /\ UNCHANGED <<cr, objs, stsReady, paradedb, calls, errMsg, result, settled, got, otherGot>>

----------------------------------------------------------------------------
\* Error path and status aggregation

\* err.Error() of a failed store call.
ErrorText == "store error"

\* handleError as it would be if it recorded the message and the condition but
\* left the phase as it was.
handleErrorKeepsPhase ==
    /\ pc = "handleError"
    /\ paradedb' = [paradedb EXCEPT
            !.status.message = errMsg \o ": " \o ErrorText,
            !.status.conditions =
                SetStatusCondition(@, ConditionTypeDegraded, "True",
                                   "ReconciliationFailed", errMsg)]
    /\ \/ /\ VersionMatches(cr, paradedb)
          /\ cr' = [cr EXCEPT !.status = paradedb'.status]
          /\ Log2(Call("statusUpdate", KParadeDB), Call("event", "ReconciliationFailed"))
          /\ Finish(Result(FALSE, requeueAfterError, TRUE))
       \/ /\ Log(Call("statusUpdate", KParadeDB))
          /\ Finish(Result(FALSE, 0, TRUE))
          /\ UNCHANGED cr
    /\ UNCHANGED <<objs, stsReady, errMsg, settled, got, otherGot>>

\* handleError: phase Failed, the message and the Degraded condition are set
\* on the in-memory descriptor and written with Status().Update.  If that
\* write fails its error is returned with an empty Result; otherwise the
\* warning event is emitted and the sync error returned with the 30 s delay.
\* handleError as it would be if it returned no delay after persisting the
\* failure.
handleErrorReturnsNoDelay ==
    /\ pc = "handleError"
    /\ paradedb' = [paradedb EXCEPT
            !.status.phase = ParadeDBPhaseFailed,
            !.status.message = errMsg \o ": " \o ErrorText,
            !.status.conditions =
                SetStatusCondition(@, ConditionTypeDegraded, "True",
                                   "ReconciliationFailed", errMsg)]
    /\ \/ /\ VersionMatches(cr, paradedb)
          /\ cr' = [cr EXCEPT !.status = paradedb'.status]
          /\ Log2(Call("statusUpdate", KParadeDB), Call("event", "ReconciliationFailed"))
          /\ Finish(Result(FALSE, 0, TRUE))
       \/ /\ Log(Call("statusUpdate", KParadeDB))
          /\ Finish(Result(FALSE, 0, TRUE))
          /\ UNCHANGED cr
    /\ UNCHANGED <<objs, stsReady, errMsg, settled, got, otherGot>>

\* handleError as it would be if, having recorded the failure, it returned no
\* error to the host runtime.
handleErrorReturnsNil ==
    /\ pc = "handleError"
    /\ paradedb' = [paradedb EXCEPT
            !.status.phase = ParadeDBPhaseFailed,
            !.status.message = errMsg \o ": " \o ErrorText,
            !.status.conditions =
                SetStatusCondition(@, ConditionTypeDegraded, "True",
                                   "ReconciliationFailed", errMsg)]
    /\ \/ /\ VersionMatches(cr, paradedb)
          /\ cr' = [cr EXCEPT !.status = paradedb'.status]
          /\ Log2(Call("statusUpdate", KParadeDB), Call("event", "ReconciliationFailed"))
          /\ Finish(Result(FALSE, requeueAfterError, FALSE))
       \/ /\ Log(Call("statusUpdate", KParadeDB))
          /\ Finish(Result(FALSE, 0, TRUE))
          /\ UNCHANGED cr
    /\ UNCHANGED <<objs, stsReady, errMsg, settled, got, otherGot>>

\* handleError as it would be if the failure record also marked the fetched
\* generation as observed.
handleErrorMarksObserved ==
    /\ pc = "handleError"
    /\ paradedb' = [paradedb EXCEPT
            !.status.phase = ParadeDBPhaseFailed,
            !.status.observedGeneration = paradedb.generation,
            !.status.message = errMsg \o ": " \o ErrorText,
            !.status.conditions =
                SetStatusCondition(@, ConditionTypeDegraded, "True",
                                   "ReconciliationFailed", errMsg)]
    /\ \/ /\ VersionMatches(cr, paradedb)
          /\ cr' = [cr EXCEPT !.status = paradedb'.status]
          /\ Log2(Call("statusUpdate", KParadeDB), Call("event", "ReconciliationFailed"))
          /\ Finish(Result(FALSE, requeueAfterError, TRUE))
       \/ /\ Log(Call("statusUpdate", KParadeDB))
          /\ Finish(Result(FALSE, 0, TRUE))
          /\ UNCHANGED cr
    /\ UNCHANGED <<objs, stsReady, errMsg, settled, got, otherGot>>

handleError ==
    /\ pc = "handleError"
    /\ paradedb' = [paradedb EXCEPT
            !.status.phase = ParadeDBPhaseFailed,
            !.status.message = errMsg \o ": " \o ErrorText,
            !.status.conditions =
                SetStatusCondition(@, ConditionTypeDegraded, "True",
                                   "ReconciliationFailed", errMsg)]
    /\ \/ /\ VersionMatches(cr, paradedb)
          /\ cr' = [cr EXCEPT !.status = paradedb'.status]
          /\ Log2(Call("statusUpdate", KParadeDB), Call("event", "ReconciliationFailed"))
          /\ Finish(Result(FALSE, requeueAfterError, TRUE))
       \/ /\ Log(Call("statusUpdate", KParadeDB))
          /\ Finish(Result(FALSE, 0, TRUE))
          /\ UNCHANGED cr
    /\ UNCHANGED <<objs, stsReady, errMsg, settled, got, otherGot>>

\* The primary and pooler endpoint strings,
\* <service>.<namespace>.svc.cluster.local:5432, kept as their parts.
Endpoint(service) == <<service, "namespace", "svc.cluster.local", PostgresPort>>

\* The three branches of updateStatus: what each sets on the status.  The
\* numbers the code prints into the messages are left out.
StatusRunning(st) ==
    [st EXCEPT
        !.phase = ParadeDBPhaseRunning,
        !.message = "ParadeDB is running",
        !.conditions =
            SetStatusCondition(
              SetStatusCondition(
                SetStatusCondition(@, ConditionTypeReady, "True",
                                   "AllReplicasReady", "All replicas are ready"),
                ConditionTypeProgressing, "False",
                "DeploymentComplete", "Deployment complete"),
              ConditionTypeDegraded, "False",
              "AllReplicasHealthy", "All replicas are healthy")]

StatusUpdating(st) ==
    [st EXCEPT
        !.phase = ParadeDBPhaseUpdating,
        !.message = "Scaling: replicas ready",
        !.conditions =
            SetStatusCondition(@, ConditionTypeProgressing, "True",
                               "Scaling", "Scaling: replicas ready")]

StatusCreating(st) ==
    [st EXCEPT
        !.phase = ParadeDBPhaseCreating,
        !.message = "Waiting for replicas to become ready",
        !.conditions =
            SetStatusCondition(@, ConditionTypeProgressing, "True",
                               "Creating", "Creating ParadeDB pods")]

\* AggregateStatus as it would be if Running were chosen for "at least the
\* desired count" instead of "exactly the desired count".
AggregateStatusAtLeast(p, readyReplicas) ==
    LET desiredReplicas == GetReplicas(p)
        st0 == [p.status EXCEPT !.readyReplicas = readyReplicas,
                                !.observedGeneration = p.generation,
                                !.currentVersion = GetImage(p)]
        st1 == IF readyReplicas >= desiredReplicas THEN StatusRunning(st0)
               ELSE IF readyReplicas > 0 THEN StatusUpdating(st0)
               ELSE StatusCreating(st0)
        st2 == [st1 EXCEPT !.endpoint = Endpoint(KService)]
    IN  IF IsConnectionPoolingEnabled(p)
        THEN [st2 EXCEPT !.poolerEndpoint = Endpoint(KPoolerService)]
        ELSE st2

\* AggregateStatus as it would be if the ready-replica count already on the
\* descriptor were kept instead of the StatefulSet's.
AggregateStatusCachedCount(p, readyReplicas) ==
    LET desiredReplicas == GetReplicas(p)
        st0 == [p.status EXCEPT !.observedGeneration = p.generation,
                                !.currentVersion = GetImage(p)]
        st1 == IF readyReplicas = desiredReplicas THEN StatusRunning(st0)
               ELSE IF readyReplicas > 0 THEN StatusUpdating(st0)
               ELSE StatusCreating(st0)
        st2 == [st1 EXCEPT !.endpoint = Endpoint(KService)]
    IN  IF IsConnectionPoolingEnabled(p)
        THEN [st2 EXCEPT !.poolerEndpoint = Endpoint(KPoolerService)]
        ELSE st2

\* updateStatus, from the Get of the StatefulSet to the Status().Update: the
\* status computed for descriptor p from the live ready-replica count.
AggregateStatus(p, readyReplicas) ==
    LET desiredReplicas == GetReplicas(p)
        st0 == [p.status EXCEPT !.readyReplicas = readyReplicas,
                                !.observedGeneration = p.generation,
                                !.currentVersion = GetImage(p)]
        st1 == IF readyReplicas = desiredReplicas THEN StatusRunning(st0)
               ELSE IF readyReplicas > 0 THEN StatusUpdating(st0)
               ELSE StatusCreating(st0)
        st2 == [st1 EXCEPT !.endpoint = Endpoint(KService)]
    IN  IF IsConnectionPoolingEnabled(p)
        THEN [st2 EXCEPT !.poolerEndpoint = Endpoint(KPoolerService)]
        ELSE st2

\* What r.Get of the StatefulSet answers to updateStatus: the object with the
\* ready-replica count its status reports at that moment.
GotStatefulSet ==
    [kind |-> KStatefulSet, obj |-> objs[KStatefulSet], readyReplicas |-> stsReady]

\* updateStatus as it would be against a store without the version check: the
\* aggregated status is written whatever happened to the descriptor since the
\* pass fetched it.
updateStatusForcesWrite ==
    /\ pc = "updateStatus"
    /\ \/ /\ got = NoGet                          \* Get fails (NotFound included)
          /\ Log(Call("get", KStatefulSet))
          /\ Finish(Result(FALSE, requeueAfterError, TRUE))
          /\ UNCHANGED <<cr, paradedb, got>>
       \/ /\ got = NoGet                          \* Get answers the StatefulSet
          /\ objs[KStatefulSet].exists
          /\ Log(Call("get", KStatefulSet))
          /\ got' = GotStatefulSet
          /\ UNCHANGED <<cr, paradedb, pc, result>>
       \/ /\ got # NoGet                          \* Status().Update
          /\ paradedb' = [paradedb EXCEPT
                              !.status = AggregateStatus(paradedb, got.readyReplicas)]
          /\ Log(Call("statusUpdate", KParadeDB))
          /\ got' = NoGet
          /\ \/ /\ cr.exists
                /\ cr' = [cr EXCEPT !.status = paradedb'.status]
                /\ Finish(Result(FALSE, requeueAfterSuccess, FALSE))
             \/ /\ Finish(Result(FALSE, requeueAfterError, TRUE))
                /\ UNCHANGED cr
    /\ UNCHANGED <<objs, stsReady, errMsg, settled, otherGot>>

\* An error of updateStatus (Get of the StatefulSet, or the status write) is
\* returned by Reconcile with the 30 s delay, without handleError.  The
\* status written is computed from what r.Get answered; the workload
\* controller and other clients act between r.Get and r.Status().Update.
updateStatus ==
    /\ pc = "updateStatus"
    /\ \/ /\ got = NoGet                          \* Get fails (NotFound included)
          /\ Log(Call("get", KStatefulSet))
          /\ Finish(Result(FALSE, requeueAfterError, TRUE))
          /\ UNCHANGED <<cr, paradedb, got>>
       \/ /\ got = NoGet                          \* Get answers the StatefulSet
          /\ objs[KStatefulSet].exists
          /\ Log(Call("get", KStatefulSet))
          /\ got' = GotStatefulSet
          /\ UNCHANGED <<cr, paradedb, pc, result>>
       \/ /\ got # NoGet                          \* Status().Update
          /\ paradedb' = [paradedb EXCEPT
                              !.status = AggregateStatus(paradedb, got.readyReplicas)]
          /\ Log(Call("statusUpdate", KParadeDB))
          /\ got' = NoGet
          /\ \/ /\ VersionMatches(cr, paradedb)
                /\ cr' = [cr EXCEPT !.status = paradedb'.status]
                /\ Finish(Result(FALSE, requeueAfterSuccess, FALSE))
             \/ /\ Finish(Result(FALSE, requeueAfterError, TRUE))
                /\ UNCHANGED cr
    /\ UNCHANGED <<objs, stsReady, errMsg, settled, otherGot>>

\* What the sync step of kind k creates for descriptor p when the object is
\* not in the store.
DesiredShape(k, p) ==
    CASE k = KCredentials -> "generated"
      [] k = KConfig -> ConfigData(p)
      [] k = KStatefulSet -> buildStatefulSet(p)
      [] k = KService -> Allocated(buildService(p))
      [] k = KHeadless -> [port |-> PostgresPort, clusterIP |-> "None"]
      [] k = KPoolerConfig -> buildPoolerConfig(p)
      [] k = KPoolerDeployment -> buildPoolerDeployment(p)
      [] k = KPoolerService -> buildPoolerService(p)
      [] k = KMetrics -> [selector |-> "paradedb", port |-> MetricsPort(p)]

\* The owned kinds that a pass over descriptor p reconciles.
EnabledKinds(p) ==
    {KConfig, KStatefulSet, KService, KHeadless}
    \cup (IF p.spec.superuserSecretRef THEN {} ELSE {KCredentials})
    \cup (IF IsConnectionPoolingEnabled(p)
          THEN {KPoolerConfig, KPoolerDeployment, KPoolerService} ELSE {})
    \cup (IF IsMonitoringEnabled(p) THEN {KMetrics} ELSE {})

\* The objects an uninterrupted run of all sync steps for descriptor p leaves,
\* started on the objects os: a missing object of an enabled kind is created,
\* one that is there is updated (ConfigMap, StatefulSet, Service) or left.
SyncedObjects(os, p) ==
    [k \in Kinds |->
        IF k \notin EnabledKinds(p) THEN os[k]
        ELSE IF ~os[k].exists THEN Created(DesiredShape(k, p))
        ELSE [os[k] EXCEPT !.spec =
                 CASE k = KConfig -> ConfigData(p)
                   [] k = KStatefulSet -> UpdatedStatefulSet(@, buildStatefulSet(p))
                   [] k = KService -> UpdatedService(@, buildService(p))
                   [] OTHER -> @]]

\* The pass is over: the host runtime takes the result.  The pass was fully
\* successful if it returned the success delay and no error.
FullSuccess(res) == res = Result(FALSE, requeueAfterSuccess, FALSE)

ReconcileReturn ==
    /\ pc = "done"
    /\ pc' = "idle"
    /\ paradedb' = NoParadeDB
    /\ calls' = <<>>
    /\ errMsg' = ""
    /\ result' = NoResult
    /\ settled' = (FullSuccess(result) /\ objs = SyncedObjects(objs, paradedb))
    /\ UNCHANGED <<cr, objs, stsReady, got, otherGot>>

----------------------------------------------------------------------------
\* A second descriptor in the same namespace, named <name>-pooler, with the
\* default spec.  Its ConfigMap is <name>-pooler-config and its primary
\* Service is <name>-pooler: the names of the first descriptor's pooler
\* ConfigMap and pooler Service.  Its passes run the same code; the two steps
\* below are the ones that meet objects of those names.  An object they create
\* carries the second descriptor's owner reference, not the first one's.
OtherParadeDB ==
    NewParadeDB([replicas |-> 1,
                 superuserSecretRef |-> FALSE,
                 connectionPooling |-> "nil",
                 monitoring |-> "disabled",
                 backup |-> "nil",
                 storageSize |-> "10Gi",
                 serviceType |-> "ClusterIP",
                 monitoringPort |-> 0,
                 postgresConfig |-> "default",
                 poolMode |-> "transaction",
                 image |-> ""])

CreatedForOther(shape) == [exists |-> TRUE, owner |-> FALSE, spec |-> shape]

\* A sync step of the second descriptor's pass.  It runs beside the passes of
\* the first, at any point of them, and makes the same two calls: r.Get, then
\* r.Create of the object built if the answer was NotFound, and r.Update of
\* the copy read otherwise.  r.Create is refused when an object of that name
\* is in the store by now, r.Update when the object is gone or has been
\* written since; a refused or failed write changes nothing in the store (the
\* second pass goes to its error handler).  A failed r.Get changes nothing at
\* all.
OtherGetCreateOrUpdate(kind, desired, updated) ==
    \/ /\ otherGot = NoGet                        \* Get: found or NotFound
       /\ cr.exists
       /\ Live
       /\ otherGot' = [kind |-> kind, obj |-> objs[kind]]
       /\ UNCHANGED <<objs, settled>>
    \/ /\ otherGot # NoGet
       /\ otherGot.kind = kind
       /\ otherGot' = NoGet
       /\ \/ /\ ~otherGot.obj.exists              \* Create succeeds
             /\ ~objs[kind].exists
             /\ objs' = [objs EXCEPT ![kind] = CreatedForOther(desired)]
             /\ settled' = FALSE
          \/ /\ otherGot.obj.exists               \* Update succeeds
             /\ objs[kind] = otherGot.obj
             /\ objs' = [objs EXCEPT ![kind].spec = updated]
             /\ settled' = (settled /\ objs' = objs)
          \/ UNCHANGED <<objs, settled>>          \* the write fails

\* reconcileConfigMap of the second descriptor's pass.
OtherReconcileConfigMap ==
    /\ OtherGetCreateOrUpdate(KPoolerConfig, ConfigData(OtherParadeDB),
                               ConfigData(OtherParadeDB))
    /\ UNCHANGED <<cr, stsReady, passVars>>

\* reconcileService of the second descriptor's pass.
OtherReconcileService ==
    /\ OtherGetCreateOrUpdate(KPoolerService, Allocated(buildService(OtherParadeDB)),
                               IF objs[KPoolerService].exists
                               THEN UpdatedService(objs[KPoolerService].spec,
                                                   buildService(OtherParadeDB))
                               ELSE Allocated(buildService(OtherParadeDB)))
    /\ UNCHANGED <<cr, stsReady, passVars>>

\* Another client creates an object under the name that a step of the pass in
\* flight has just found free.  The object carries no owner reference to the
\* descriptor, and it is the only such object in the store.
ExternalCreate ==
    /\ Live
    /\ cr.exists
    /\ \A j \in OwnedKinds : objs[j].exists => objs[j].owner
    /\ \E k \in OwnedKinds :
        /\ Held(k)
        /\ ~objs[k].exists
        /\ objs' = [objs EXCEPT ![k] = CreatedForOther(DesiredShape(k, cr))]
    /\ settled' = FALSE
    /\ UNCHANGED <<cr, stsReady, passVars, otherGot>>

Environment ==
    \/ CreateParadeDB
    \/ EditSpec
    \/ DeleteParadeDB
    \/ Erase
    \/ SetReadyReplicas
    \/ CreateSuperuserSecret
    \/ DeleteSuperuserSecret

Reconcile ==
    \/ ReconcileGet
    \/ ReconcileDeleting
    \/ finalizeParadeDB
    \/ RemoveFinalizer
    \/ AddFinalizer
    \/ InitializeStatus
    \/ PendingToCreating
    \/ reconcileCredentialsSecret
    \/ reconcileConfigMap
    \/ reconcileStatefulSet
    \/ reconcileService
    \/ reconcileHeadlessService
    \/ reconcilePoolerConfigMap
    \/ reconcilePoolerDeployment
    \/ reconcilePoolerService
    \/ reconcileMetricsService
    \/ reconcileBackupCronJob
    \/ updateStatus
    \/ handleError
    \/ ReconcileReturn

Next == Environment \/ Reconcile

\* Passes keep being delivered and run to their end, and a call on the
\* descriptor that is tried again and again is eventually accepted: the fetch,
\* the Deleting write and the write that removes the finalizer.
DeletionFairness ==
    /\ WF_vars(Reconcile)
    /\ SF_vars(ReconcileGet /\ pc' = "deleting")
    /\ SF_vars(ReconcileDeleting /\ pc' = "finalize")
    /\ SF_vars(RemoveFinalizer /\ ~cr'.finalizer)

\* The life cycle of a descriptor whose spec is left as created and whose
\* workload reports no ready replica: creation, the passes, the deletion and
\* the erasure.  The deletion branch reads the deletion timestamp and the
\* finalizer only.
DeletionNext ==
    \/ CreateParadeDB
    \/ DeleteParadeDB
    \/ Erase
    \/ CreateSuperuserSecret
    \/ DeleteSuperuserSecret
    \/ Reconcile

DeletionSpec == Init /\ [][DeletionNext]_vars /\ DeletionFairness

\* The life cycle of a descriptor whose spec is left as created, with the
\* workload controller reporting ready replicas.
ConvergenceNext ==
    \/ CreateParadeDB
    \/ DeleteParadeDB
    \/ Erase
    \/ SetReadyReplicas
    \/ CreateSuperuserSecret
    \/ DeleteSuperuserSecret
    \/ Reconcile

\* The host runtime keeps delivering passes (every pass ends with a requeue
\* delay or an error that is retried), and a pass runs to its end.
ConvergenceSpec == Init /\ [][ConvergenceNext]_vars /\ WF_vars(Reconcile)

\* The life cycle of a descriptor whose owned objects are deleted or changed
\* by other actors and whose spec is edited in the fields that shape them.
DriftNext ==
    \/ CreateParadeDB
    \/ EditSpecField
    \/ DeleteParadeDB
    \/ Erase
    \/ ExternalDelete
    \/ ExternalChange
    \/ Reconcile

DriftSpec == Init /\ [][DriftNext]_vars

\* The life cycle of a descriptor that the user also scales and deletes while
\* a pass is in flight, and whose objects other clients delete and change,
\* also between the two calls of a sync step.
ConflictNext ==
    \/ CreateParadeDB
    \/ EditSpec
    \/ EditSpecDuringPass
    \/ DeleteParadeDB
    \/ DeleteParadeDBDuringPass
    \/ Erase
    \/ ExternalDelete
    \/ ExternalChange
    \/ Reconcile

ConflictSpec == Init /\ [][ConflictNext]_vars

\* The life cycle of a descriptor whose pooling section the user edits.
PoolingNext ==
    \/ CreateParadeDB
    \/ EditPooling
    \/ DeleteParadeDB
    \/ Erase
    \/ Reconcile

PoolingSpec == Init /\ [][PoolingNext]_vars

\* Two descriptors in one namespace: the passes of the first and, beside
\* them, the steps of the second's passes that touch names the first uses.
IsolationNext ==
    \/ CreateParadeDB
    \/ OtherReconcileConfigMap
    \/ OtherReconcileService
    \/ DeleteParadeDB
    \/ Erase
    \/ Reconcile

IsolationSpec == Init /\ [][IsolationNext]_vars

\* The life cycle of a descriptor in a namespace where another client creates
\* objects under the names the loop uses, between the r.Get and the r.Create
\* of a sync step.
ForeignNext ==
    \/ CreateParadeDB
    \/ DeleteParadeDB
    \/ Erase
    \/ ExternalCreate
    \/ Reconcile

ForeignSpec == Init /\ [][ForeignNext]_vars

Spec == Init /\ [][Next]_vars

----------------------------------------------------------------------------
\* Properties

Range(s) == {s[i] : i \in 1..Len(s)}

\* The calls of the current pass that write to the store.
WriteCalls == {c \in Range(calls) : c.verb \in WriteVerbs}

\* C1 (idempotence of the full pass): a pass that starts right after a fully
\* successful non-deletion pass, with the descriptor, the owned objects and
\* the workload's readiness unchanged in between, issues no write call: no
\* create, no update of an owned object, no status update of the descriptor.
\* (Stated for the passes in which no sync step fails, so that the write of
\* the error path is not counted.)
C1_SecondPassIssuesNoWrite ==
    (pc # "idle" /\ settled /\ errMsg = "") => WriteCalls = {}

\* C2 (finalizer before creation): whenever a pass has issued a create call
\* for an owned object, the descriptor in the store carries the finalizer, the
\* descriptor the pass fetched carried it already, and the pass has not written
\* the descriptor's metadata itself; so the finalizer was persisted by an
\* earlier pass, and the pass that adds the finalizer creates nothing.
C2_FinalizerBeforeCreation ==
    (\E c \in Range(calls) : c.verb = "create") =>
        /\ cr.exists /\ cr.finalizer
        /\ paradedb.exists /\ paradedb.finalizer
        /\ Call("update", KParadeDB) \notin Range(calls)

\* A pass has ended after creating the first and the last owned object.
C2_Witness ==
    /\ pc = "done"
    /\ Call("create", KCredentials) \in Range(calls)
    /\ Call("create", KMetrics) \in Range(calls)

\* C3 (finalizer removal only after cleanup): every step that takes the
\* finalizer off the stored descriptor is the finalizer-removal step of a pass
\* that fetched the descriptor with a deletion timestamp and in which the
\* cleanup step (finalizeParadeDB) has already returned, which it records with
\* its Deleted event.
C3_FinalizerRemovedOnlyAfterCleanup ==
    [][(cr.exists /\ cr.finalizer /\ (~cr'.exists \/ ~cr'.finalizer)) =>
            /\ pc = "removeFinalizer"
            /\ paradedb.deletionTimestamp
            /\ Call("event", "Deleted") \in Range(calls)]_vars

\* A deletion pass has ended with the finalizer taken off after the cleanup.
C3_Witness ==
    /\ pc = "done"
    /\ cr.exists /\ ~cr.finalizer /\ cr.deletionTimestamp
    /\ Call("event", "Deleted") \in Range(calls)

\* The sync steps in the order of Reconcile: the message each hands to
\* handleError and the objects each touches.
StepMessages == <<CredentialsMsg,
                  "Failed to reconcile ConfigMap",
                  "Failed to reconcile StatefulSet",
                  "Failed to reconcile Service",
                  "Failed to reconcile Headless Service",
                  PoolerMsg,
                  "Failed to reconcile Metrics Service">>

StepKinds == <<{KSuperuserSecret, KCredentials},
               {KConfig},
               {KStatefulSet},
               {KService},
               {KHeadless},
               {KPoolerConfig, KPoolerDeployment, KPoolerService},
               {KMetrics}>>

\* A pass has ended in which a sync step failed.
SyncFailed == pc = "done" /\ errMsg # ""

\* handleError's status write went through (the warning event follows it).
HandleErrorWrote == Call("event", "ReconciliationFailed") \in Range(calls)

PersistedFailed ==
    /\ cr.status.phase = ParadeDBPhaseFailed
    /\ cr.status.conditions[ConditionTypeDegraded].status = "True"
    /\ cr.status.conditions[ConditionTypeDegraded].message # ""

\* After the failed step the pass called nothing but handleError: it touched
\* no object of a later step, and it fetched the StatefulSet at most once (the
\* Status Aggregator would fetch it again).
NoLaterStep ==
    LET n == CHOOSE i \in 1..Len(StepMessages) : StepMessages[i] = errMsg
    IN  /\ \A c \in Range(calls) :
              (c.verb \in {"get", "create", "update"} /\ c.kind # KParadeDB) =>
                  \E i \in 1..n : c.kind \in StepKinds[i]
        /\ Cardinality({i \in 1..Len(calls) : calls[i] = Call("get", KStatefulSet)}) <= 1
        /\ paradedb.status.phase = ParadeDBPhaseFailed

\* C4 (error path, as claimed): when a sync step of a pass fails, the pass
\* leaves the persisted phase Failed and the Degraded condition true with a
\* non-empty message, and runs no later sync step nor the Status Aggregator.
C4_ErrorPathAlwaysPersistsFailed == SyncFailed => (PersistedFailed /\ NoLaterStep)

\* C4 (error path, amended): when a sync step of a pass fails, the pass ends
\* with an error and runs no later sync step nor the Status Aggregator; and if
\* handleError's status write went through, the persisted phase is Failed and
\* the Degraded condition is true with a non-empty message.
C4_ErrorPath ==
    SyncFailed => /\ result.err
                  /\ NoLaterStep
                  /\ HandleErrorWrote => PersistedFailed

\* The metrics step failed and handleError persisted the failure.
C4_Witness ==
    /\ SyncFailed
    /\ errMsg = "Failed to reconcile Metrics Service"
    /\ HandleErrorWrote
    /\ PersistedFailed

Phases == {"", ParadeDBPhasePending, ParadeDBPhaseCreating, ParadeDBPhaseRunning,
           ParadeDBPhaseUpdating, ParadeDBPhaseFailed, ParadeDBPhaseDeleting}

PermittedTransitions ==
    {<<"", ParadeDBPhasePending>>,
     <<ParadeDBPhasePending, ParadeDBPhaseCreating>>,
     <<ParadeDBPhaseCreating, ParadeDBPhaseRunning>>,
     <<ParadeDBPhaseRunning, ParadeDBPhaseUpdating>>,
     <<ParadeDBPhaseUpdating, ParadeDBPhaseRunning>>,
     <<ParadeDBPhaseFailed, ParadeDBPhaseCreating>>}
    \cup ({ParadeDBPhasePending, ParadeDBPhaseCreating, ParadeDBPhaseRunning,
           ParadeDBPhaseUpdating} \X {ParadeDBPhaseFailed})
    \cup (Phases \X {ParadeDBPhaseDeleting})

\* C5 (phase state machine): every change of the persisted phase of a
\* descriptor is one of: unset to Pending, Pending to Creating, Creating to
\* Running, Running to Updating, Updating to Running, Pending / Creating /
\* Running / Updating to Failed, Failed to Creating, any phase to Deleting.
C5_PhaseStateMachine ==
    [][(cr.exists /\ cr'.exists /\ cr'.status.phase # cr.status.phase) =>
            <<cr.status.phase, cr'.status.phase>> \in PermittedTransitions]_vars

\* The pass has ended with the Status Aggregator's status write: the last two
\* calls are updateStatus's Get of the StatefulSet and its Status().Update
\* (handleError's write follows a failed step, and errMsg is set then).
AggregatorWrote ==
    /\ pc = "done"
    /\ errMsg = ""
    /\ Len(calls) >= 2
    /\ calls[Len(calls)] = Call("statusUpdate", KParadeDB)
    /\ calls[Len(calls) - 1] = Call("get", KStatefulSet)

\* C6 (phase as a function of the replica counts, as claimed): with r the
\* ready count that r.Get of the StatefulSet answered and d the desired count,
\* the Status Aggregator writes Running exactly when r = d and r > 0, Updating
\* exactly when 0 < r < d, and Creating exactly when r = 0.
C6_PhaseOfCountsBelowDesired ==
    [][(pc = "updateStatus" /\ Held(KStatefulSet) /\ calls' # calls) =>
        LET r == got.readyReplicas
            d == paradedb.spec.replicas
            phase == paradedb'.status.phase
        IN  /\ (phase = ParadeDBPhaseRunning) <=> (r = d /\ r > 0)
            /\ (phase = ParadeDBPhaseUpdating) <=> (0 < r /\ r < d)
            /\ (phase = ParadeDBPhaseCreating) <=> (r = 0)]_vars

\* C6 (amended): the Status Aggregator writes Running exactly when r = d (and
\* then r > 0, d being at least 1), Updating exactly when r > 0 and r # d, so
\* also when more replicas are ready than desired, and Creating exactly when
\* r = 0; r is the count that r.Get of the StatefulSet answered in
\* updateStatus.
C6_PhaseOfCounts ==
    [][(pc = "updateStatus" /\ Held(KStatefulSet) /\ calls' # calls) =>
        LET r == got.readyReplicas
            d == paradedb.spec.replicas
            phase == paradedb'.status.phase
        IN  /\ d >= 1
            /\ (phase = ParadeDBPhaseRunning) <=> (r = d /\ r > 0)
            /\ (phase = ParadeDBPhaseUpdating) <=> (r > 0 /\ r # d)
            /\ (phase = ParadeDBPhaseCreating) <=> (r = 0)]_vars

\* The aggregator has written Updating with more replicas ready than desired.
C6_Witness ==
    /\ AggregatorWrote
    /\ stsReady > paradedb.spec.replicas
    /\ paradedb.status.phase = ParadeDBPhaseUpdating
    /\ cr.status = paradedb.status

\* C7 (conditions written by the Status Aggregator): the status it writes with
\* phase Running has Ready = True, Progressing = False and Degraded = False;
\* the status it writes with phase Updating or Creating has Progressing = True.
C7_AggregatorConditions ==
    AggregatorWrote =>
        LET st == paradedb.status
        IN  /\ st.phase = ParadeDBPhaseRunning =>
                  /\ st.conditions[ConditionTypeReady].status = "True"
                  /\ st.conditions[ConditionTypeProgressing].status = "False"
                  /\ st.conditions[ConditionTypeDegraded].status = "False"
            /\ st.phase \in {ParadeDBPhaseUpdating, ParadeDBPhaseCreating} =>
                  st.conditions[ConditionTypeProgressing].status = "True"

\* The aggregator has written Running, with every replica ready, and the
\* write is in the store.
C7_Witness ==
    /\ AggregatorWrote
    /\ paradedb.status.phase = ParadeDBPhaseRunning
    /\ paradedb.status.readyReplicas = MaxReplicas
    /\ cr.status = paradedb.status

\* C8 (ready count within the desired count): in every state the ready-replica
\* count recorded in the descriptor's status is at most the descriptor's
\* desired replica count.
C8_ReadyAtMostDesired ==
    cr.exists => cr.status.readyReplicas <= cr.spec.replicas

\* C9 (external credential reference, no writes): while a pass runs for a
\* descriptor that carries superuserSecretRef, no step changes the referenced
\* Secret or <name>-credentials in the store, and the pass issues no call on
\* either of them other than Get.
C9_ExternalReferenceNoCredentialWrites ==
    [][(pc # "idle" /\ paradedb.exists /\ paradedb.spec.superuserSecretRef) =>
            /\ objs'[KSuperuserSecret] = objs[KSuperuserSecret]
            /\ objs'[KCredentials] = objs[KCredentials]
            /\ \A c \in Range(calls') :
                  c.kind \in {KSuperuserSecret, KCredentials} => c.verb = "get"]_vars

\* The credentials step of such a pass has run and found the referenced Secret.
C9_Witness ==
    /\ pc = "config"
    /\ paradedb.spec.superuserSecretRef
    /\ Call("get", KSuperuserSecret) \in Range(calls)
    /\ ~objs[KCredentials].exists

\* The pass has run its credentials step for a descriptor whose referenced
\* Secret is not in the store.
MissingReference ==
    /\ paradedb.exists
    /\ paradedb.spec.superuserSecretRef
    /\ Call("get", KSuperuserSecret) \in Range(calls)
    /\ ~objs[KSuperuserSecret].exists

NoOwnedObjectWritten ==
    \A c \in Range(calls) : c.verb \in {"create", "update"} => c.kind \notin OwnedKinds

\* With the referenced Secret in the store, the credentials step can go on to
\* the configuration step.
ProceedsWhenReferenceExists ==
    (pc = "credentials" /\ paradedb.spec.superuserSecretRef
        /\ objs[KSuperuserSecret].exists) =>
        ENABLED (reconcileCredentialsSecret /\ pc' = "config")

\* C10 (missing credential reference, as claimed): a pass whose descriptor
\* names a Secret that does not exist ends with an error and the persisted
\* phase Failed, having created or updated no owned object; with the Secret in
\* the store a pass goes on past the credentials step.
C10_MissingReferenceAlwaysFailed ==
    /\ (pc = "done" /\ MissingReference) =>
            /\ result.err
            /\ cr.status.phase = ParadeDBPhaseFailed
            /\ NoOwnedObjectWritten
    /\ ProceedsWhenReferenceExists

\* C10 (amended): such a pass never gets past the credentials step: it ends
\* with an error, having created or updated no owned object, and the persisted
\* phase is Failed if handleError's status write went through; with the Secret
\* in the store a pass goes on past the credentials step.
C10_MissingReference ==
    /\ MissingReference =>
            /\ pc \in {"handleError", "done"}
            /\ errMsg = CredentialsMsg
            /\ NoOwnedObjectWritten
            /\ pc = "done" => result.err
            /\ (pc = "done" /\ HandleErrorWrote) => cr.status.phase = ParadeDBPhaseFailed
    /\ ProceedsWhenReferenceExists

\* A pass failed on the missing Secret and recorded it; the Secret was then
\* created, and the next pass is past its credentials step.
C10_Witness ==
    /\ pc = "config"
    /\ paradedb.spec.superuserSecretRef
    /\ objs[KSuperuserSecret].exists
    /\ paradedb.status.phase = ParadeDBPhaseFailed
    /\ paradedb.status.message = CredentialsMsg \o ": " \o ErrorText
    /\ ~objs[KConfig].exists

\* C11 (auto-generated credentials are created once): no step changes a
\* <name>-credentials that is in the store (it goes only when the descriptor is
\* erased), no pass issues an update on it, a pass issues a create for it only
\* when it is not there, and for a descriptor without superuserSecretRef the
\* credentials step goes on to the next step only with the object in the store.
C11_CredentialsCreatedOnce ==
    [][/\ (objs[KCredentials].exists /\ cr'.exists) =>
              objs'[KCredentials] = objs[KCredentials]
       /\ Call("update", KCredentials) \notin Range(calls')
       /\ (Call("create", KCredentials) \in Range(calls')
              /\ Call("create", KCredentials) \notin Range(calls)) =>
              ~objs[KCredentials].exists
       /\ (pc = "credentials" /\ ~paradedb.spec.superuserSecretRef /\ pc' = "config") =>
              objs'[KCredentials].exists]_vars

\* A later pass has found <name>-credentials and skipped its creation.
C11_Witness ==
    /\ pc = "config"
    /\ ~paradedb.spec.superuserSecretRef
    /\ objs[KCredentials].exists
    /\ Call("get", KCredentials) \in Range(calls)
    /\ Call("create", KCredentials) \notin Range(calls)

\* C12 (ownership): an object that a step of the loop brings into the store
\* carries the owner reference to the descriptor of the pass, which is in the
\* store, and no step takes the reference off an object or puts it on one
\* that another client created under the same name.
C12_OwnedObjectsCarryOwner ==
    [][\A k \in OwnedKinds :
          /\ (calls' # calls /\ ~objs[k].exists /\ objs'[k].exists) =>
                 objs'[k].owner /\ cr.exists
          /\ (objs[k].exists /\ objs'[k].exists) => objs'[k].owner = objs[k].owner]_vars

\* A pass has created the StatefulSet with the owner reference for a
\* descriptor with all tiers on, in a store where another client had created
\* <name>-config under the loop's name.
C12_Witness ==
    /\ Call("create", KStatefulSet) \in Range(calls)
    /\ objs[KStatefulSet].exists /\ objs[KStatefulSet].owner
    /\ objs[KConfig].exists /\ ~objs[KConfig].owner
    /\ IsConnectionPoolingEnabled(paradedb)

\* C13 (the loop never deletes an owned object): an object of an owned kind
\* leaves the store only in the step in which the descriptor is erased, and no
\* pass issues a delete call.
C13_NoDeleteByTheLoop ==
    [][/\ \A k \in OwnedKinds :
              (objs[k].exists /\ ~objs'[k].exists) => (cr.exists /\ ~cr'.exists)
       /\ \A c \in Range(calls') : c.verb # "delete"]_vars

\* A deletion pass has ended, the finalizer is off, and the owned objects are
\* still in the store.
C13_Witness ==
    /\ pc = "done"
    /\ cr.exists /\ cr.deletionTimestamp /\ ~cr.finalizer
    /\ objs[KStatefulSet].exists /\ objs[KConfig].exists /\ objs[KService].exists

\* C14 as claimed: whenever the descriptor is in the store without the
\* finalizer, it is in the terminal state that follows the finalizer's removal.
C14_FinalizerAlwaysPresent ==
    (cr.exists /\ ~cr.finalizer) => cr.deletionTimestamp

\* C14 (finalizer presence): a descriptor in the store carries the finalizer,
\* with two exceptions: the terminal state between the finalizer's removal and
\* the erasure (deletion timestamp set, phase Deleting), and the state of a new
\* descriptor until a pass has persisted the finalizer (status unset, no owned
\* object in the store).
C14_FinalizerPresent ==
    (cr.exists /\ ~cr.finalizer) =>
        \/ cr.deletionTimestamp /\ cr.status.phase = ParadeDBPhaseDeleting
        \/ /\ ~cr.deletionTimestamp
           /\ cr.status = EmptyStatus
           /\ \A k \in OwnedKinds : ~objs[k].exists

\* The pass that adds the finalizer has failed to persist it: the descriptor is
\* still without it after a pass.
C14_Witness ==
    /\ pc = "done"
    /\ cr.exists /\ ~cr.finalizer /\ ~cr.deletionTimestamp
    /\ Call("update", KParadeDB) \in Range(calls)
    /\ result.err

\* The pass reached the sync steps: it looked for the credentials.
SyncPass ==
    \E c \in Range(calls) : c.verb = "get" /\ c.kind \in {KSuperuserSecret, KCredentials}

\* The pass reached the Status Aggregator: every sync step returned success
\* and the StatefulSet was fetched a second time.
AggregatorReached ==
    /\ errMsg = ""
    /\ Cardinality({i \in 1..Len(calls) : calls[i] = Call("get", KStatefulSet)}) = 2

\* C15 as claimed, for the passes that reach the sync steps: a pass that ends
\* with an error returns the 30s delay, and every pass returns 30s or 60s.
C15_ErrorAlwaysDelayed ==
    (pc = "done" /\ SyncPass) =>
        /\ result.err => result.after = requeueAfterError
        /\ result.after \in {requeueAfterError, requeueAfterSuccess}

\* C15 (requeue policy, amended): a pass returns the 60s delay exactly when
\* every sync step and the status aggregation succeeded; it returns the 30s
\* delay exactly when it ends with an error after handleError persisted the
\* failure of a sync step or after the status aggregation failed; every other
\* pass that ends with an error returns no delay, and the failed call was one
\* on the descriptor itself.
C15_RequeuePolicy ==
    pc = "done" =>
        /\ result.after \in {0, requeueAfterError, requeueAfterSuccess}
        /\ result.after = requeueAfterSuccess <=> (AggregatorReached /\ ~result.err)
        /\ result.after = requeueAfterError <=>
               (result.err /\ (HandleErrorWrote \/ AggregatorReached))
        /\ (result.err /\ result.after = 0) =>
               calls[Len(calls)] \in {Call("get", KParadeDB), Call("update", KParadeDB),
                                      Call("statusUpdate", KParadeDB)}
        /\ result.err => ~result.requeue

\* A sync step failed, handleError persisted the failure and the pass returned
\* the 30s delay with the error.
C15_Witness ==
    /\ pc = "done"
    /\ SyncFailed /\ HandleErrorWrote
    /\ result = Result(FALSE, requeueAfterError, TRUE)

\* The sync steps in the order of Reconcile, the Status Aggregator last.
StepOrder == <<"credentials", "config", "statefulset", "service", "headless",
               "poolerConfig", "poolerDeployment", "poolerService",
               "metrics", "backup", "updateStatus">>
StepNo(l) == CHOOSE i \in 1..Len(StepOrder) : StepOrder[i] = l
StepWanted(p, l) ==
    CASE l \in {"poolerConfig", "poolerDeployment", "poolerService"} ->
             IsConnectionPoolingEnabled(p)
      [] l = "metrics" -> IsMonitoringEnabled(p)
      [] l = "backup" -> IsBackupEnabled(p)
      [] OTHER -> TRUE

\* C16 (dependency order): a pass enters the sync steps at the credentials
\* step; from a step it goes, when the step returned success, to the next step
\* of the fixed order that the descriptor enables, skipping only disabled
\* tiers, and otherwise to the error handler (between its r.Get and its write
\* the step stays where it is); so no step runs after a failed one, and no
\* step runs twice in a pass (an owned kind is fetched once, the StatefulSet a
\* second time by the Status Aggregator only).
C16_DependencyOrder ==
    [][/\ (pc' \in Range(StepOrder) /\ pc' # pc) =>
              /\ errMsg' = ""
              /\ StepWanted(paradedb', pc')
              /\ IF pc \in Range(StepOrder)
                 THEN /\ StepNo(pc') > StepNo(pc)
                      /\ \A j \in (StepNo(pc) + 1)..(StepNo(pc') - 1) :
                             ~StepWanted(paradedb', StepOrder[j])
                 ELSE pc' = "credentials" /\ pc \in {"idle", "pending"}
       /\ (pc \in Range(StepOrder) /\ calls' # calls) =>
              \/ pc' \in (Range(StepOrder) \cup {"handleError", "done"}) \ {pc}
              \/ pc' = pc /\ got = NoGet /\ got' # NoGet
       /\ (pc \in Range(StepOrder) /\ pc' = "done") => pc = "updateStatus"
       /\ \A k \in Kinds \ {KParadeDB} :
              Cardinality({i \in 1..Len(calls') : calls'[i] = Call("get", k)})
                  <= IF k = KStatefulSet /\ pc = "updateStatus" THEN 2 ELSE 1]_vars

\* A pass with every tier on has run every step and the Status Aggregator.
C16_Witness ==
    /\ pc = "done"
    /\ FullSuccess(result)
    /\ IsConnectionPoolingEnabled(paradedb) /\ IsBackupEnabled(paradedb)
    /\ \A k \in {KConfig, KStatefulSet, KService, KHeadless, KPoolerConfig,
                 KPoolerDeployment, KPoolerService, KMetrics} :
           Call("get", k) \in Range(calls)

\* C17 (deletion short-circuits sync): in a pass whose fetched descriptor has
\* the deletion timestamp, only the deletion branch runs: every call is on the
\* descriptor (or the Deleted event), no object of the store changes, and of
\* the persisted status at most the phase changes, to Deleting; if the fetched
\* descriptor has no finalizer the pass ends at once, with no write and no
\* error.
C17_DeletionShortCircuitsSync ==
    [][(paradedb'.exists /\ paradedb'.deletionTimestamp) =>
           /\ pc' \in {"deleting", "finalize", "removeFinalizer", "done"}
           /\ \A c \in Range(calls') : c.kind = KParadeDB \/ c = Call("event", "Deleted")
           /\ objs' = objs
           /\ cr'.status \in {cr.status,
                              [cr.status EXCEPT !.phase = ParadeDBPhaseDeleting]}
           /\ (pc = "idle" /\ ~cr.finalizer) =>
                  /\ pc' = "done"
                  /\ result' = Result(FALSE, 0, FALSE)
                  /\ calls' = <<Call("get", KParadeDB)>>
                  /\ cr' = cr]_vars

\* A pass has fetched a descriptor with the deletion timestamp and no
\* finalizer, and has ended.
C17_Witness ==
    /\ pc = "done"
    /\ paradedb.exists /\ paradedb.deletionTimestamp
    /\ calls = <<Call("get", KParadeDB)>>
    /\ ~result.err

\* C18 as first stated: the pass that finds the finalizer absent always
\* persists the finalizer, the pass that finds the phase unset always persists
\* Pending, and each always asks for an immediate requeue.
C18_BootstrapWriteAlwaysPersists ==
    [][/\ pc = "addFinalizer" =>
              /\ pc' = "done"
              /\ calls' = <<Call("get", KParadeDB), Call("update", KParadeDB)>>
              /\ objs' = objs
              /\ result' = Result(TRUE, 0, FALSE)
              /\ cr' = [cr EXCEPT !.finalizer = TRUE]
       /\ pc = "initStatus" =>
              /\ pc' = "done"
              /\ calls' = <<Call("get", KParadeDB), Call("statusUpdate", KParadeDB)>>
              /\ objs' = objs
              /\ result' = Result(TRUE, 0, FALSE)
              /\ cr' = [cr EXCEPT !.status.phase = ParadeDBPhasePending]]_vars

\* C18 (bootstrap passes stop early), amended: a pass that fetches a descriptor
\* with no deletion timestamp and no finalizer issues one write, the update
\* that adds the finalizer, and ends; a pass that fetches one with the
\* finalizer and an unset phase issues one write, the status update to
\* Pending, and ends.  Neither touches an owned object.  When the write is
\* accepted the pass asks for an immediate requeue; when it is refused, as it
\* always is once the descriptor has changed since the fetch, the descriptor is
\* as it was and the pass returns the error with no requeue request.
C18_BootstrapPassesStopEarly ==
    [][/\ (pc = "idle" /\ paradedb'.exists /\ ~cr.deletionTimestamp) =>
              /\ ~cr.finalizer => pc' = "addFinalizer"
              /\ (cr.finalizer /\ cr.status.phase = "") => pc' = "initStatus"
       /\ pc = "addFinalizer" =>
              /\ pc' = "done"
              /\ calls' = <<Call("get", KParadeDB), Call("update", KParadeDB)>>
              /\ objs' = objs
              /\ \/ result' = Result(TRUE, 0, FALSE) /\ cr' = [cr EXCEPT !.finalizer = TRUE]
                 \/ result' = Result(FALSE, 0, TRUE) /\ cr' = cr
              /\ ~VersionMatches(cr, paradedb) => result' = Result(FALSE, 0, TRUE)
       /\ pc = "initStatus" =>
              /\ pc' = "done"
              /\ calls' = <<Call("get", KParadeDB), Call("statusUpdate", KParadeDB)>>
              /\ objs' = objs
              /\ \/ /\ result' = Result(TRUE, 0, FALSE)
                    /\ cr' = [cr EXCEPT !.status.phase = ParadeDBPhasePending]
                 \/ result' = Result(FALSE, 0, TRUE) /\ cr' = cr
              /\ ~VersionMatches(cr, paradedb) => result' = Result(FALSE, 0, TRUE)]_vars

\* The pass that initialises the status has persisted Pending and ended.
C18_Witness ==
    /\ pc = "done"
    /\ calls = <<Call("get", KParadeDB), Call("statusUpdate", KParadeDB)>>
    /\ result = Result(TRUE, 0, FALSE)
    /\ cr.status.phase = ParadeDBPhasePending
    /\ \A k \in OwnedKinds : ~objs[k].exists

\* C19 (deletion under persistence failure): a pass that fetches a descriptor
\* with the deletion timestamp and the finalizer starts at the Deleting write,
\* whatever earlier passes did; if that write is refused the pass ends with an
\* error before the cleanup and the descriptor is as it was; the cleanup is
\* followed by the removal of the finalizer, and that pass ends with an error
\* exactly when the stored descriptor still carries the finalizer.
C19_DeletionRetriedFromStart ==
    [][/\ (pc = "idle" /\ paradedb'.exists /\ cr.deletionTimestamp /\ cr.finalizer) =>
              pc' = "deleting" /\ calls' = <<Call("get", KParadeDB)>>
       /\ pc = "deleting" =>
              \/ /\ pc' = "finalize"
                 /\ cr' = [cr EXCEPT !.status.phase = ParadeDBPhaseDeleting]
              \/ /\ pc' = "done" /\ result'.err
                 /\ cr' = cr /\ cr'.finalizer /\ cr'.deletionTimestamp
                 /\ Call("event", "Deleted") \notin Range(calls')
       /\ pc = "finalize" => pc' = "removeFinalizer" /\ cr' = cr
       /\ pc = "removeFinalizer" =>
              /\ pc' = "done"
              /\ result'.err <=> cr'.finalizer
              /\ result'.err => cr' = cr /\ cr'.deletionTimestamp]_vars

\* The write that removes the finalizer was refused after the cleanup: the
\* pass has ended with an error and the descriptor still carries the finalizer.
C19_Witness ==
    /\ pc = "done"
    /\ result.err
    /\ cr.exists /\ cr.deletionTimestamp /\ cr.finalizer
    /\ cr.status.phase = ParadeDBPhaseDeleting
    /\ Call("event", "Deleted") \in Range(calls)

\* C20 (deletion terminates): once the deletion timestamp is set on a
\* descriptor that carries the finalizer, then, with passes delivered and
\* writes eventually accepted, the finalizer is eventually removed, which lets
\* the store erase the descriptor.
C20_DeletionTerminates ==
    (cr.exists /\ cr.deletionTimestamp /\ cr.finalizer)
        ~> (cr.exists /\ cr.deletionTimestamp /\ ~cr.finalizer /\ ENABLED Erase)

\* A deletion pass has removed the finalizer after an earlier attempt: the
\* descriptor is ready to be erased.
C20_Witness ==
    /\ pc = "idle"
    /\ cr.exists /\ cr.deletionTimestamp /\ ~cr.finalizer
    /\ cr.status.phase = ParadeDBPhaseDeleting
    /\ ENABLED Erase

\* The descriptor is live and the workload reports as many ready replicas as
\* the descriptor asks for (at least one).
ReadyAsDesired ==
    /\ cr.exists /\ ~cr.deletionTimestamp
    /\ stsReady = GetReplicas(cr)

\* No store call of the pass in flight has been answered with an error: a
\* sync step has failed only for want of the referenced Secret, and a pass
\* ends with an error only after handleError has recorded such a failure.
StoreCallsSucceed ==
    /\ errMsg # "" => MissingReference
    /\ (pc = "done" /\ result.err) => (errMsg # "" /\ HandleErrorWrote)

\* The Secret that spec.auth.superuserSecretRef names, if any, is in the store.
ReferenceExists ==
    cr.exists => (cr.spec.superuserSecretRef => objs[KSuperuserSecret].exists)

PersistedRunning ==
    /\ cr.exists
    /\ cr.status.phase = ParadeDBPhaseRunning
    /\ cr.status.conditions[ConditionTypeReady].status = "True"

\* C21 as claimed: if from some point on the descriptor is live, the ready
\* count equals the desired count and store calls succeed, then from some
\* point on the persisted phase is Running with Ready true.
C21_ConvergesWhateverTheReference ==
    <>[](ReadyAsDesired /\ StoreCallsSucceed) => <>[]PersistedRunning

\* C21 (convergence to Running, amended): the same, provided also that the
\* Secret named by superuserSecretRef, if one is named, is in the store from
\* some point on.
C21_ConvergesToRunning ==
    <>[](ReadyAsDesired /\ StoreCallsSucceed /\ ReferenceExists) => <>[]PersistedRunning

\* A fully successful pass has brought a descriptor that names its own Secret
\* to Running, with the Degraded condition cleared.
C21_Witness ==
    /\ pc = "done"
    /\ FullSuccess(result)
    /\ PersistedRunning
    /\ cr.spec.superuserSecretRef
    /\ paradedb.status.conditions[ConditionTypeDegraded].status = "False"

\* The sync step of an owned kind, and the shape its object has when the step
\* has returned success: there, and for the ConfigMap, the StatefulSet and the
\* Service with the fields computed from the descriptor.
StepOf(k) ==
    CASE k = KCredentials -> "credentials"
      [] k = KConfig -> "config"
      [] k = KStatefulSet -> "statefulset"
      [] k = KService -> "service"
      [] k = KHeadless -> "headless"
      [] k = KPoolerConfig -> "poolerConfig"
      [] k = KPoolerDeployment -> "poolerDeployment"
      [] k = KPoolerService -> "poolerService"
      [] k = KMetrics -> "metrics"
Healed(k, o, p) ==
    /\ o.exists
    /\ o.owner
    /\ k = KStatefulSet =>
           /\ o.spec.replicas = buildStatefulSet(p).replicas
           /\ o.spec.template = buildStatefulSet(p).template
    /\ k = KService =>
           /\ o.spec.port = buildService(p).port
           /\ o.spec.type = buildService(p).type
           /\ o.spec.selector = buildService(p).selector
    /\ k = KConfig => o.spec = ConfigData(p)

\* C22 (drift healing): the sync step of every kind the descriptor enables,
\* when it returns success, leaves its object in the store, with the replica
\* count and the pod template of the StatefulSet, the port, type and selector
\* of the Service and the data of the ConfigMap computed from the descriptor,
\* whatever other actors had deleted or changed before; and a pass that ends
\* in full success has run every one of these steps to success: it created or
\* updated the ConfigMap, the StatefulSet and the Service and fetched or
\* created every other object.
C22_DriftHealed ==
    [][/\ paradedb.exists =>
              \A k \in EnabledKinds(paradedb) :
                  (pc = StepOf(k) /\ calls' # calls /\ pc' \notin {pc, "handleError"}) =>
                      Healed(k, objs'[k], paradedb)
       /\ (pc = "updateStatus" /\ FullSuccess(result')) =>
              \A k \in EnabledKinds(paradedb) :
                  \/ Call("create", k) \in Range(calls)
                  \/ Call("update", k) \in Range(calls)
                  \/ k \notin {KConfig, KStatefulSet, KService}
                         /\ Call("get", k) \in Range(calls)]_vars

\* A fully successful pass has created <name>-config anew and updated the
\* StatefulSet that was there: the ConfigMap had been deleted by another actor.
C22_Witness ==
    /\ pc = "done" /\ FullSuccess(result)
    /\ Call("create", KConfig) \in Range(calls)
    /\ Call("update", KStatefulSet) \in Range(calls)
    /\ objs[KConfig].exists /\ objs[KConfig].spec = ConfigData(cr)

\* The pass in flight holds a copy of the descriptor that another actor has
\* written since.
Stale == paradedb.exists /\ ~VersionMatches(cr, paradedb)

\* C23 (optimistic-concurrency conflicts): a step of the loop never changes
\* the stored spec, generation or deletion timestamp; a step that writes the
\* descriptor from a stale copy is refused: it leaves the stored descriptor as
\* it is and ends the pass with an error; the copy a pass fetches is never
\* stale, so the pass after a conflict writes again; and a sync step changes
\* an owned object only if the store still holds what its r.Get answered: an
\* update of an object that another actor has changed or deleted since is
\* refused, leaves the store as it is and fails the step.
C23_NoStaleWrite ==
    [][/\ (cr.exists /\ calls' # calls) =>
              /\ cr'.exists
              /\ cr'.spec = cr.spec
              /\ cr'.generation = cr.generation
              /\ cr'.deletionTimestamp = cr.deletionTimestamp
       /\ (Stale /\ \E i \in (Len(calls) + 1)..Len(calls') :
                        calls'[i] \in {Call("update", KParadeDB),
                                       Call("statusUpdate", KParadeDB)}) =>
              /\ cr' = cr
              /\ pc' = "done"
              /\ result'.err
       /\ (pc = "idle" /\ paradedb'.exists) => VersionMatches(cr', paradedb')
       /\ \A k \in OwnedKinds :
              /\ (calls' # calls /\ objs'[k] # objs[k]) =>
                     Held(k) /\ objs[k] = got.obj
              /\ (calls' # calls /\ pc # "updateStatus" /\ Held(k) /\ objs[k] # got.obj) =>
                     /\ objs' = objs
                     /\ pc' = "handleError"
                     /\ got' = NoGet]_vars

\* Another actor changed the pod template of the StatefulSet between the
\* r.Get and the r.Update of the StatefulSet step, and the user scaled the
\* descriptor while that pass was in flight: the update was refused and the
\* foreign template is in the store, the status write of the error handler was
\* refused and the pass has ended with an error, the stored spec being the
\* user's.
C23_Witness ==
    /\ pc = "done"
    /\ result.err
    /\ Stale
    /\ cr.generation > paradedb.generation
    /\ calls[Len(calls)] = Call("statusUpdate", KParadeDB)
    /\ cr.status.observedGeneration < cr.generation
    /\ Call("update", KStatefulSet) \in Range(calls)
    /\ objs[KStatefulSet].exists
    /\ objs[KStatefulSet].spec.template.credentialsSecretName = "other"

\* C24 (resumability after cancellation): a step of a pass that records no
\* failure leaves unchanged what an uninterrupted run of the sync steps and
\* of the Status Aggregator would produce from the store, so a pass may stop
\* after any step; and a pass that ends in full success leaves exactly that:
\* the owned objects are the ones an uninterrupted run produces and the status
\* is the one aggregated from the count its r.Get of the StatefulSet answered
\* (aggregating again from that count changes nothing).  Hence an aborted pass followed by an uninterrupted
\* one ends in the state of a pass that was never interrupted.
C24_Resumable ==
    [][/\ (/\ pc \notin {"idle", "done"}
           /\ calls' # calls
           /\ cr.exists
           /\ ~FullSuccess(result')
           /\ Call("event", "ReconciliationFailed") \notin Range(calls')) =>
              /\ cr'.exists
              /\ SyncedObjects(objs', paradedb') = SyncedObjects(objs, paradedb)
              /\ AggregateStatus(cr', stsReady') = AggregateStatus(cr, stsReady)
       /\ (pc = "updateStatus" /\ FullSuccess(result')) =>
              /\ objs' = SyncedObjects(objs', paradedb')
              /\ cr'.status = AggregateStatus(cr, got.readyReplicas)
              /\ AggregateStatus(cr', got.readyReplicas) = cr'.status]_vars

\* A pass has ended in full success that found the StatefulSet in the store
\* and the Service missing: an earlier pass was aborted between the two, and
\* no failure was ever recorded on the descriptor.
C24_Witness ==
    /\ pc = "done" /\ FullSuccess(result)
    /\ Call("update", KStatefulSet) \in Range(calls)
    /\ Call("create", KService) \in Range(calls)
    /\ Call("event", "Creating") \notin Range(calls)
    /\ cr.status.conditions[ConditionTypeDegraded].status = ""
    /\ objs = SyncedObjects(objs, cr)

\* The message handed to handleError is the one of the step whose call failed:
\* the last owned or referenced object the pass touched belongs to that step.
FailedStepNamed ==
    /\ errMsg \in Range(StepMessages)
    /\ LET n == CHOOSE i \in 1..Len(StepMessages) : StepMessages[i] = errMsg
           touched == {i \in 1..Len(calls) :
                          /\ calls[i].verb \in {"get", "create", "update"}
                          /\ calls[i].kind # KParadeDB}
       IN  /\ touched # {}
           /\ calls[CHOOSE i \in touched : \A j \in touched : j <= i].kind \in StepKinds[n]

\* C25 (failures never swallowed, as claimed): every pass in which a sync step
\* fails returns an error, emits the ReconciliationFailed warning event and
\* records on the descriptor a status message that names the failed step.
C25_FailureAlwaysRecorded ==
    SyncFailed =>
        /\ result.err
        /\ HandleErrorWrote
        /\ cr.status.message = errMsg \o ": " \o ErrorText

\* C25 (failures never swallowed, amended): every pass in which a sync step
\* fails returns an error to the host runtime, and the message handed to the
\* error handler names the failed step.  When the handler's status write goes
\* through, the message is recorded on the descriptor and the warning event
\* is emitted after it; when the store refuses that write, the write is the
\* pass's last call: no event is emitted, and the write's error is returned
\* without a delay.
C25_FailureReturned ==
    SyncFailed =>
        /\ result.err
        /\ FailedStepNamed
        /\ IF HandleErrorWrote
           THEN /\ cr.status.message = errMsg \o ": " \o ErrorText
                /\ calls[Len(calls)] = Call("event", "ReconciliationFailed")
                /\ calls[Len(calls) - 1] = Call("statusUpdate", KParadeDB)
           ELSE /\ calls[Len(calls)] = Call("statusUpdate", KParadeDB)
                /\ result = Result(FALSE, 0, TRUE)

\* The Service step has failed and the failure is on the descriptor with the
\* step's message; the warning event was emitted.
C25_Witness ==
    /\ SyncFailed
    /\ result.err
    /\ errMsg = "Failed to reconcile Service"
    /\ calls[Len(calls)] = Call("event", "ReconciliationFailed")
    /\ cr.status.message = "Failed to reconcile Service" \o ": " \o ErrorText
    /\ Call("get", KService) \in Range(calls)
    /\ Call("get", KHeadless) \notin Range(calls)

\* C26 (automated backups): when backup is enabled in the descriptor, a pass
\* that has ended in full success leaves the scheduled backup job in the
\* store, owned by the descriptor.
C26_BackupJobPresent ==
    (pc = "done" /\ FullSuccess(result) /\ IsBackupEnabled(paradedb)) =>
        /\ objs[KBackupCronJob].exists
        /\ objs[KBackupCronJob].owner

\* C27 (configuration always overwritten): after every configuration step
\* that returned success, whether <name>-config was just created or was there
\* with other contents, its data map has the keys postgresql.conf,
\* pg_hba.conf and init.sql and no other, each with the text the Config
\* Builder returns for the descriptor of the pass.
C27_ConfigOverwritten ==
    [][(pc = "config" /\ pc' = "statefulset") =>
          /\ objs'[KConfig].exists
          /\ DOMAIN objs'[KConfig].spec = {"postgresql.conf", "pg_hba.conf", "init.sql"}
          /\ objs'[KConfig].spec["postgresql.conf"] = buildPostgresConfig(paradedb)
          /\ objs'[KConfig].spec["pg_hba.conf"] = buildPgHBAConfig(paradedb)
          /\ objs'[KConfig].spec["init.sql"] = buildInitScript(paradedb)
          /\ \A k \in Kinds \ {KConfig} : objs'[k] = objs[k]]_vars

\* The configuration step has just rewritten a <name>-config that was in the
\* store, for a descriptor whose PostgreSQL parameters the user had edited.
C27_Witness ==
    /\ pc = "statefulset"
    /\ calls[Len(calls)] = Call("update", KConfig)
    /\ paradedb.spec.postgresConfig = "tuned"
    /\ objs[KConfig].spec["postgresql.conf"] = <<"postgresql.conf", "tuned">>
    /\ DOMAIN objs[KConfig].spec = {"postgresql.conf", "pg_hba.conf", "init.sql"}

\* C28 (StatefulSet update frame): when the StatefulSet is in the store, a
\* StatefulSet step that returns success sets its replica count and its pod
\* template to the values computed from the descriptor and leaves its volume
\* claim templates, its selector, its service name and its owner as they
\* were, also when the descriptor's storage size has changed since the
\* creation; a step that fails, and the r.Get of the step, leave it as it was;
\* no other object changes.
C28_StatefulSetUpdateFrame ==
    [][(pc = "statefulset" /\ calls' # calls /\ objs[KStatefulSet].exists) =>
          /\ pc' = "service" =>
                /\ objs'[KStatefulSet].exists
                /\ objs'[KStatefulSet].owner = objs[KStatefulSet].owner
                /\ objs'[KStatefulSet].spec.replicas = GetReplicas(paradedb)
                /\ objs'[KStatefulSet].spec.template = buildStatefulSet(paradedb).template
                /\ objs'[KStatefulSet].spec.volumeClaimTemplates =
                       objs[KStatefulSet].spec.volumeClaimTemplates
                /\ objs'[KStatefulSet].spec.selector = objs[KStatefulSet].spec.selector
                /\ objs'[KStatefulSet].spec.serviceName = objs[KStatefulSet].spec.serviceName
          /\ pc' # "service" => objs'[KStatefulSet] = objs[KStatefulSet]
          /\ \A k \in Kinds \ {KStatefulSet} : objs'[k] = objs[k]]_vars

\* The StatefulSet step has just updated a StatefulSet created with a 10Gi
\* volume claim template for a descriptor whose storage size is now 20Gi, and
\* scaled it to the descriptor's replica count: the template still says 10Gi.
C28_Witness ==
    /\ pc = "service"
    /\ calls[Len(calls)] = Call("update", KStatefulSet)
    /\ paradedb.spec.storageSize = "20Gi"
    /\ objs[KStatefulSet].spec.volumeClaimTemplates = [storage |-> "10Gi"]
    /\ objs[KStatefulSet].spec.replicas = GetReplicas(paradedb)
    /\ objs[KStatefulSet].spec.template = buildStatefulSet(paradedb).template

\* C29 (Service update frame): when the primary Service is in the store, a
\* Service step that returns success sets its port, type and selector to the
\* values computed from the descriptor and leaves its cluster-internal
\* address, its session affinity and its owner as they were; a step that
\* fails, and the r.Get of the step, leave it as it was; no other object
\* changes.
C29_ServiceUpdateFrame ==
    [][(pc = "service" /\ calls' # calls /\ objs[KService].exists) =>
          /\ pc' = "headless" =>
                /\ objs'[KService].exists
                /\ objs'[KService].owner = objs[KService].owner
                /\ objs'[KService].spec.port = buildService(paradedb).port
                /\ objs'[KService].spec.type = paradedb.spec.serviceType
                /\ objs'[KService].spec.selector = buildService(paradedb).selector
                /\ objs'[KService].spec.clusterIP = objs[KService].spec.clusterIP
                /\ objs'[KService].spec.sessionAffinity = objs[KService].spec.sessionAffinity
          /\ pc' # "headless" => objs'[KService] = objs[KService]
          /\ \A k \in Kinds \ {KService} : objs'[k] = objs[k]]_vars

\* The Service step has just updated the Service for a descriptor whose
\* Service type the user changed to LoadBalancer: the type follows, the
\* address the store allocated at creation is still there.
C29_Witness ==
    /\ pc = "headless"
    /\ calls[Len(calls)] = Call("update", KService)
    /\ paradedb.spec.serviceType = "LoadBalancer"
    /\ objs[KService].spec.type = "LoadBalancer"
    /\ objs[KService].spec.clusterIP = "10.96.0.10"
    /\ objs[KService].spec.sessionAffinity = "None"

\* C30 (metrics Service recomputed and patched): when monitoring is enabled,
\* a pass that has ended in full success leaves <name>-metrics in the store
\* with the port the descriptor configures (9187 when unset), also after the
\* configured port was changed.
C30_MetricsPortFollowsDescriptor ==
    (pc = "done" /\ FullSuccess(result) /\ IsMonitoringEnabled(paradedb)) =>
        /\ objs[KMetrics].exists
        /\ objs[KMetrics].spec.port = MetricsPort(paradedb)
        /\ objs[KMetrics].spec.selector = "paradedb"

\* The three objects of the pooling tier.
PoolerKinds == {KPoolerConfig, KPoolerDeployment, KPoolerService}

\* C31 (pooling tier gated and never retracted): a pass calls the store for a
\* pooler object (Get or Create) only when pooling is enabled in the
\* descriptor it fetched; no step of a pass removes a pooler object; and a
\* pass over a descriptor with pooling off leaves the three pooler objects
\* exactly as they are, also when they were created while pooling was on.
C31_PoolerGatedNeverRetracted ==
    [][/\ (\E i \in (Len(calls) + 1)..Len(calls') : calls'[i].kind \in PoolerKinds) =>
              /\ IsConnectionPoolingEnabled(paradedb)
              /\ \A i \in (Len(calls) + 1)..Len(calls') :
                     calls'[i].kind \in PoolerKinds => calls'[i].verb \in {"get", "create"}
       /\ (pc # "idle") =>
              \A k \in PoolerKinds : objs[k].exists => objs'[k].exists
       /\ (pc # "idle" /\ paradedb.exists /\ ~IsConnectionPoolingEnabled(paradedb)) =>
              \A k \in PoolerKinds : objs'[k] = objs[k]]_vars

\* Pooling was switched off after the pooler objects had been created; a pass
\* over the edited descriptor has ended in full success without a call for a
\* pooler object, and the three objects are still in the store.
C31_Witness ==
    /\ pc = "done" /\ FullSuccess(result)
    /\ paradedb.spec.connectionPooling = "disabled"
    /\ paradedb.generation > 1
    /\ \A k \in PoolerKinds : objs[k].exists /\ objs[k].owner
    /\ \A c \in Range(calls) : c.kind \notin PoolerKinds

\* C32 (pooling tier follows the descriptor): with pooling enabled, a pass
\* that has ended in full success leaves the pooler's configuration, workload
\* and endpoint as they are computed from the descriptor the pass fetched:
\* pgbouncer.ini and the Deployment carry its pool mode, the Service its type.
C32_PoolerFollowsDescriptor ==
    (pc = "done" /\ FullSuccess(result) /\ IsConnectionPoolingEnabled(paradedb)) =>
        /\ \A k \in PoolerKinds : objs[k].exists
        /\ objs[KPoolerConfig].spec = buildPoolerConfig(paradedb)
        /\ objs[KPoolerDeployment].spec = buildPoolerDeployment(paradedb)
        /\ objs[KPoolerService].spec = buildPoolerService(paradedb)

\* C33 (ready-replica count derived, as claimed): every status write of the
\* loop carries the ready-replica count the StatefulSet reports at that
\* moment; a failing pass persists no count taken from an earlier pass.
C33_EveryWriteCarriesLiveCount ==
    [][(cr.exists /\ cr'.exists /\ cr'.status # cr.status) =>
          cr'.status.readyReplicas = stsReady]_vars

\* C33 (ready-replica count derived, amended): the stored ready-replica count
\* is changed by the Status Aggregator only, which sets it to the count that
\* its r.Get of the StatefulSet answered in that pass; every other status write of the loop
\* (Pending, Creating, the failure record) carries the count the pass fetched
\* with the descriptor, unchanged, so a failing pass leaves the count of an
\* earlier pass in the store.
C33_CountSetByAggregatorOnly ==
    [][(cr.exists /\ cr'.exists) =>
          /\ (cr'.status.readyReplicas # cr.status.readyReplicas) => pc = "updateStatus"
          /\ (pc = "updateStatus" /\ cr'.status # cr.status) =>
                 cr'.status.readyReplicas = got.readyReplicas
          /\ (pc = "updateStatus" /\ FullSuccess(result')) =>
                 cr'.status.readyReplicas = got.readyReplicas]_vars

\* A failing pass has recorded the failure while the StatefulSet reports
\* another count than the one an earlier pass stored: the stored count is
\* still the earlier one.
C33_Witness ==
    /\ pc = "done"
    /\ HandleErrorWrote
    /\ cr.status.phase = ParadeDBPhaseFailed
    /\ cr.status.observedGeneration > 0
    /\ cr.status.readyReplicas # stsReady

\* C34 (observed generation marks full processing): the stored observed
\* generation changes only in the status write of the Status Aggregator, at
\* the end of a pass in which every sync step the descriptor enables was run
\* and none failed, and is then the generation of the descriptor the pass
\* fetched; every fully successful pass stores that generation; a bootstrap
\* pass, a failing pass and a deletion pass leave it as it was.
C34_ObservedGenerationByFullPass ==
    [][(cr.exists /\ cr'.exists) =>
          /\ (cr'.status.observedGeneration # cr.status.observedGeneration) =>
                 /\ pc = "updateStatus"
                 /\ FullSuccess(result')
                 /\ errMsg = ""
                 /\ ~paradedb.deletionTimestamp
                 /\ \A k \in EnabledKinds(paradedb) : Call("get", k) \in Range(calls)
          /\ (pc = "updateStatus" /\ FullSuccess(result')) =>
                 cr'.status.observedGeneration = paradedb.generation]_vars

\* The user edited the descriptor after its first generation had been fully
\* processed; a pass over the second generation has ended in full success and
\* the stored observed generation is the second.
C34_Witness ==
    /\ pc = "done" /\ FullSuccess(result)
    /\ paradedb.generation = 2
    /\ cr.generation = 2
    /\ cr.status.observedGeneration = 2
    /\ Call("update", KStatefulSet) \in Range(calls)

\* C35 (isolation between descriptors): an object that a pass changes carries
\* the owner reference of the descriptor of that pass (the first descriptor's
\* passes change objects it owns, the second's objects it does not), and after
\* a fully successful pass every object of a kind the descriptor enables is
\* one created for that descriptor.
C35_PassesTouchOwnObjectsOnly ==
    [][/\ \A k \in Kinds :
              (objs[k].exists /\ objs'[k].exists /\ objs'[k] # objs[k]) =>
                  (objs[k].owner <=> calls' # calls)
       /\ (pc = "updateStatus" /\ FullSuccess(result')) =>
              \A k \in EnabledKinds(paradedb) : objs'[k].exists /\ objs'[k].owner]_vars

\* C36 (Ready implies Running): in every stored status of the descriptor the
\* Ready condition is true only if the phase is Running.
C36_ReadyImpliesRunning ==
    (cr.exists /\ cr.status.conditions[ConditionTypeReady].status = "True") =>
        cr.status.phase = ParadeDBPhaseRunning

\* C37 (Degraded cleared on recovery): when a pass has ended in full success,
\* the stored Degraded condition is not true, whatever the ready-replica
\* count is.
C37_DegradedClearedByFullSuccess ==
    (pc = "done" /\ FullSuccess(result)) =>
        cr.status.conditions[ConditionTypeDegraded].status # "True"

\* C38 (pooler endpoint tracks the pooling toggle): when a pass has ended in
\* full success, the stored pooler endpoint is non-empty exactly if pooling
\* is enabled in the descriptor the pass fetched.
C38_PoolerEndpointTracksToggle ==
    (pc = "done" /\ FullSuccess(result)) =>
        (cr.status.poolerEndpoint # <<>> <=> IsConnectionPoolingEnabled(paradedb))

\* C39 (no creation after delete-intent, as claimed): once the deletion
\* timestamp is set on the stored descriptor, no step of the loop creates or
\* changes an owned object, also when the timestamp is set while a pass that
\* fetched the descriptor earlier is in flight.
C39_NoWriteAfterDeleteIntent ==
    [][(cr.exists /\ cr.deletionTimestamp /\ pc # "idle") => objs' = objs]_vars

\* C39 (no creation after delete-intent, amended): a pass that fetched the
\* descriptor with the deletion timestamp set creates and changes no object.
\* A pass that fetched it before the timestamp was set goes on with its sync
\* steps on the copy it holds: an object it then creates carries the
\* descriptor's owner reference, and the pass cannot end in full success,
\* because its status write is refused.
C39_NoWriteOnceDeletionFetched ==
    [][/\ (paradedb.exists /\ paradedb.deletionTimestamp /\ pc # "idle") => objs' = objs
       /\ (cr.exists /\ cr.deletionTimestamp /\ pc # "idle") =>
              /\ \A k \in Kinds :
                     objs'[k] # objs[k] =>
                         /\ Stale
                         /\ k \in EnabledKinds(paradedb)
                         /\ objs'[k].exists /\ objs'[k].owner
              /\ pc' = "done" => ~FullSuccess(result')]_vars

\* The user deleted the descriptor while a pass that had fetched it was in
\* flight; the pass ran its sync steps to the end, creating the StatefulSet,
\* and its status write was refused.
C39_Witness ==
    /\ pc = "done"
    /\ result.err
    /\ errMsg = ""
    /\ cr.exists /\ paradedb.exists
    /\ cr.deletionTimestamp
    /\ ~paradedb.deletionTimestamp
    /\ Call("create", KStatefulSet) \in Range(calls)
    /\ calls[Len(calls)] = Call("statusUpdate", KParadeDB)
    /\ objs[KStatefulSet].exists /\ objs[KStatefulSet].owner

====
